---- MODULE Spec2Model ----
(***************************************************************************)
(* Model of the request pipeline of the Aladin OpenAPI client              *)
(* (src/src/client.ts), its rate limiter (utils/rate-limiter.ts) and error *)
(* classifier (src/src/utils/error-handler.ts).                            *)
(*                                                                         *)
(* Time is in milliseconds: the time t of the model is the Date.now()      *)
(* value t + Epoch, so that the days over which the daily quota is kept    *)
(* fit the 32-bit integers of TLC.  The code's comparisons of elapsed time *)
(* (now - then > limit) are written as now > then + limit, which is the    *)
(* same on numbers and never leaves that range.  Strings are sequences of  *)
(* one-character strings.  A JavaScript value is a record [t, n, s]: t is  *)
(* the typeof tag, n the number, s the string.                             *)
(***************************************************************************)
EXTENDS Integers, Sequences, FiniteSets, TLC

\* ------------------------------------------------------------------------
\* Bounds of the model
\* ------------------------------------------------------------------------
MaxRetryCalls == 2
MaxCacheCalls == 3
MaxValidationCalls == 2
MaxBreakerCalls == 7
MaxTicks == 1
MaxBreakerTicks == 2
MaxProbeFields == 3
MaxQuotaCalls == 2
MaxQuotaTicks == 1
\* the longest time, in days, that passes without a step of the process
MaxIdleDays == 31
MaxBurstCalls == 11
\* the time between two of the calls that used up the quota
PriorGap == 2500
MaxToolCalls == 3
MaxInterleaveCalls == 3
\* how far the clock runs: past LOOKUP_TTL, and short of the next midnight,
\* when the timer of setupDailyReset would fire
Horizon == 1800001
\* Date.now() at process start
T0 == 100000000
\* the Date.now() value that is time 0 of the model
Epoch == 1500000000
\* the process starts at TStart
TStart == T0 - Epoch
MaxTime == TStart + Horizon

\* ------------------------------------------------------------------------
\* Program constants
\* ------------------------------------------------------------------------
MAX_RETRIES == 3
RETRY_DELAY == 1000
MAX_RETRY_DELAY == 8000
RETRY_MULTIPLIER == 2
SEARCH_TTL == 300000
LOOKUP_TTL == 1800000
LIST_TTL == 600000
MAX_CACHE_SIZE == 1000
KEY_PREFIX == "aladin_mcp"
CIRCUIT_BREAKER_THRESHOLD == 5
CIRCUIT_BREAKER_TIMEOUT == 60000
DAILY_API_LIMIT == 5000
MIN_START == 1
MAX_START == 1000
MIN_MAX_RESULTS == 1
MAX_MAX_RESULTS == 50
MIN_CATEGORY_ID == 0
MAX_CATEGORY_ID == 99999
MIN_QUERY_LENGTH == 1
MAX_QUERY_LENGTH == 200
MIN_YEAR == 1900
CurrentYear == 2026
MAX_YEAR == CurrentYear + 1
MIN_MONTH == 1
MAX_MONTH == 12
MIN_WEEK == 1
MAX_WEEK == 5

\* ErrorCode enum
INVALID_TTB_KEY == 100
MISSING_REQUIRED_PARAM == 200
INVALID_PARAM_VALUE == 300
SYSTEM_ERROR == 900
DAILY_LIMIT_EXCEEDED == 901

\* ------------------------------------------------------------------------
\* JavaScript values
\* ------------------------------------------------------------------------
Undef == [t |-> "undefined", n |-> 0, s |-> <<>>]
Num(n) == [t |-> "number", n |-> n, s |-> <<>>]
Str(s) == [t |-> "string", n |-> 0, s |-> s]

\* !v is false
Truthy(v) ==
    \/ v.t = "number" /\ v.n # 0
    \/ v.t = "string" /\ v.s # <<>>

Digits == {"0", "1", "2", "3", "4", "5", "6", "7", "8", "9"}

\* ------------------------------------------------------------------------
\* Request parameters: an object literal is the sequence of its members
\* [k, v] in construction order; no name occurs twice.
\* ------------------------------------------------------------------------
Has(params, name) == \E i \in 1..Len(params) : params[i].k = name

Get(params, name) ==
    IF Has(params, name)
    THEN params[CHOOSE i \in 1..Len(params) : params[i].k = name].v
    ELSE Undef

\* the members of params as a set: two objects are field-wise equal iff
\* these sets are equal
Fields(params) == {params[i] : i \in 1..Len(params)}

\* Array.prototype.sort() on the parameter names orders them by UTF-16 code
\* units; NameOrder lists the names of the three parameter types that way.
NameOrder ==
    <<"CategoryId", "Cover", "ISBN", "ISBN13", "ItemId", "MaxResults",
      "Month", "OptResult", "Query", "QueryType", "SearchTarget", "Sort",
      "Start", "Week", "Year">>

Rank(name) == CHOOSE i \in 1..Len(NameOrder) : NameOrder[i] = name

RECURSIVE SortedInsert(_, _)
SortedInsert(sorted, m) ==
    IF sorted = <<>> THEN <<m>>
    ELSE IF Rank(m.k) < Rank(Head(sorted).k) THEN <<m>> \o sorted
    ELSE <<Head(sorted)>> \o SortedInsert(Tail(sorted), m)

\* the parameters left in construction order
SortParamsNone(params) == params

RECURSIVE SortParams(_)
SortParams(params) ==
    IF params = <<>> THEN <<>>
    ELSE SortedInsert(SortParams(Tail(params)), Head(params))

\* JSON.stringify of an object: its members in insertion order, without
\* the members whose value is undefined
JsonStringify(obj) == SelectSeq(obj, LAMBDA m : m.v.t # "undefined")

\* createCacheKey: `${KEY_PREFIX}:${prefix}:${JSON.stringify(sortedParams)}`
createCacheKey(prefix, params) ==
    [ns |-> KEY_PREFIX, prefix |-> prefix, json |-> JsonStringify(SortParams(params))]

\* ------------------------------------------------------------------------
\* Parameter validation (client.ts)
\* ------------------------------------------------------------------------
ISBN_10_PATTERN(s) ==
    /\ Len(s) = 10
    /\ \A i \in 1..9 : s[i] \in Digits
    /\ s[10] \in Digits \cup {"X"}

ISBN_13_PATTERN(s) ==
    /\ Len(s) = 13
    /\ \A i \in 1..13 : s[i] \in Digits

OutOfRange(v, lo, hi) == v.t # "undefined" /\ (v.n < lo \/ v.n > hi)

validateIsbn(isbn) ==
    IF ~Truthy(isbn) THEN <<"ISBN_REQUIRED">>
    ELSE IF ~ISBN_10_PATTERN(isbn.s) /\ ~ISBN_13_PATTERN(isbn.s) THEN <<"ISBN_FORMAT">>
    ELSE <<>>

\* each validator returns the accumulated errors; isValid is errors = <<>>
validateSearchParams(params) ==
    (IF ~Truthy(Get(params, "Query")) THEN <<"QUERY_REQUIRED">>
     ELSE IF Len(Get(params, "Query").s) < MIN_QUERY_LENGTH THEN <<"QUERY_TOO_SHORT">>
     ELSE IF Len(Get(params, "Query").s) > MAX_QUERY_LENGTH THEN <<"QUERY_TOO_LONG">>
     ELSE <<>>)
    \o (IF OutOfRange(Get(params, "CategoryId"), MIN_CATEGORY_ID, MAX_CATEGORY_ID)
        THEN <<"CATEGORY_RANGE">> ELSE <<>>)
    \o (IF OutOfRange(Get(params, "Start"), MIN_START, MAX_START)
        THEN <<"START_RANGE">> ELSE <<>>)
    \o (IF OutOfRange(Get(params, "MaxResults"), MIN_MAX_RESULTS, MAX_MAX_RESULTS)
        THEN <<"MAX_RESULTS_RANGE">> ELSE <<>>)

validateLookupParams(params) ==
    (IF ~Truthy(Get(params, "ItemId")) /\ ~Truthy(Get(params, "ISBN"))
        /\ ~Truthy(Get(params, "ISBN13"))
     THEN <<"IDENTIFIER_REQUIRED">> ELSE <<>>)
    \o (IF Truthy(Get(params, "ISBN")) THEN validateIsbn(Get(params, "ISBN")) ELSE <<>>)
    \o (IF Truthy(Get(params, "ISBN13")) /\ ~ISBN_13_PATTERN(Get(params, "ISBN13").s)
        THEN <<"ISBN13_FORMAT">> ELSE <<>>)

validateListParams(params) ==
    (IF ~Truthy(Get(params, "QueryType")) THEN <<"QUERYTYPE_REQUIRED">> ELSE <<>>)
    \o (IF OutOfRange(Get(params, "CategoryId"), MIN_CATEGORY_ID, MAX_CATEGORY_ID)
        THEN <<"CATEGORY_RANGE">> ELSE <<>>)
    \o (IF OutOfRange(Get(params, "Year"), MIN_YEAR, MAX_YEAR)
        THEN <<"YEAR_RANGE">> ELSE <<>>)
    \o (IF OutOfRange(Get(params, "Month"), MIN_MONTH, MAX_MONTH)
        THEN <<"MONTH_RANGE">> ELSE <<>>)
    \o (IF OutOfRange(Get(params, "Week"), MIN_WEEK, MAX_WEEK)
        THEN <<"WEEK_RANGE">> ELSE <<>>)
    \o (IF OutOfRange(Get(params, "Start"), MIN_START, MAX_START)
        THEN <<"START_RANGE">> ELSE <<>>)
    \o (IF OutOfRange(Get(params, "MaxResults"), MIN_MAX_RESULTS, MAX_MAX_RESULTS)
        THEN <<"MAX_RESULTS_RANGE">> ELSE <<>>)

\* ------------------------------------------------------------------------
\* Errors.  One record shape serves both the AxiosError rejected by the
\* transport (isAxiosError = TRUE; status 0 means no response, ecode ""
\* means no error.code, dataErrorCode 0 means response.data carries no
\* errorCode) and the StandardError objects of the error handler
\* (isAxiosError = FALSE; origCode is originalError.code, 0 when absent).
\* timestamp tells whether the object has a timestamp property: the
\* createStandardError of the client and of the error handler set one, an
\* exception of the runtime or of the transport has none, and no numeric code.
\* ------------------------------------------------------------------------
StandardError(code, msg, origCode) ==
    [isAxiosError |-> FALSE, code |-> code, msg |-> msg, status |-> 0,
     ecode |-> "", dataErrorCode |-> 0, origCode |-> origCode, timestamp |-> TRUE]

AxiosError(status, ecode, dataErrorCode) ==
    [isAxiosError |-> TRUE, code |-> 0, msg |-> <<"AxiosError">>, status |-> status,
     ecode |-> ecode, dataErrorCode |-> dataErrorCode, origCode |-> 0,
     timestamp |-> FALSE]

\* the TypeError the runtime throws
TypeError ==
    [isAxiosError |-> FALSE, code |-> 0, msg |-> <<"TypeError">>, status |-> 0,
     ecode |-> "", dataErrorCode |-> 0, origCode |-> 0, timestamp |-> FALSE]

NoError == StandardError(0, <<>>, 0)

ALADIN_ERROR_CODES == {100, 200, 300, 900, 901}

\* a classification that keeps whatever code the upstream sent
handleAladinApiErrorKeepCode(errorCode) ==
    StandardError(errorCode, <<"ALADIN_ERROR_DETAILS">>, errorCode)

handleAladinApiError(errorCode) ==
    IF errorCode \in ALADIN_ERROR_CODES
    THEN StandardError(errorCode, <<"ALADIN_ERROR_DETAILS">>, errorCode)
    ELSE StandardError(SYSTEM_ERROR, <<"UNKNOWN_API_ERROR">>, errorCode)

NETWORK_ERROR_CODES == {"ECONNREFUSED", "ENOTFOUND", "ECONNABORTED", "ETIMEDOUT"}

handleNetworkError(error) ==
    IF error.ecode \in NETWORK_ERROR_CODES
    THEN StandardError(SYSTEM_ERROR, <<"NETWORK_ERROR_MAPPING", error.ecode>>, 0)
    ELSE StandardError(SYSTEM_ERROR, <<"NETWORK_FAILED">>, 0)

\* HTTP_STATUS_ERROR_MAPPING[status].category, "" for an unmapped status
HttpStatusCategory(status) ==
    CASE status = 400 -> "parameter"
      [] status \in {401, 403} -> "authentication"
      [] status = 404 -> "api_response"
      [] status = 429 -> "rate_limit"
      [] status \in {500, 503} -> "system"
      [] status \in {502, 504} -> "network"
      [] OTHER -> ""

handleHttpStatusError(status) ==
    LET cat == HttpStatusCategory(status) IN
    IF cat = "" THEN StandardError(SYSTEM_ERROR, <<"HTTP_ERROR">>, 0)
    ELSE StandardError(
           CASE cat = "authentication" -> INVALID_TTB_KEY
             [] cat = "parameter" -> INVALID_PARAM_VALUE
             [] cat = "rate_limit" -> DAILY_LIMIT_EXCEEDED
             [] OTHER -> SYSTEM_ERROR,
           <<"HTTP_STATUS_ERROR_MAPPING">>, 0)

handleValidationError(errors) == StandardError(INVALID_PARAM_VALUE, errors, 0)

handleApiLimitExceeded == StandardError(DAILY_LIMIT_EXCEEDED, <<"DAILY_LIMIT">>, 0)

handleInvalidTtbKey == StandardError(INVALID_TTB_KEY, <<"INVALID_TTB_KEY">>, 0)

\* `${context}: ${error.message || error}` with code SYSTEM_ERROR
handleGenericError(error, context) ==
    StandardError(SYSTEM_ERROR, <<context>> \o error.msg, error.code)

\* AladinApiClient.createStandardError
createStandardError(code, msg) == StandardError(code, msg, 0)

\* the error rethrown as it was caught
rethrowError(error) == error

\* AladinApiClient.handleApiError
handleApiError(error) ==
    IF error.isAxiosError /\ error.dataErrorCode # 0
    THEN handleAladinApiError(error.dataErrorCode)
    ELSE IF error.isAxiosError /\ error.ecode # ""
    THEN handleNetworkError(error)
    ELSE IF error.isAxiosError /\ error.status # 0
    THEN handleHttpStatusError(error.status)
    ELSE handleGenericError(error, "API_CALL")

\* every failure taken for a retryable one
isRetryableErrorAlways(error) == TRUE

\* AladinApiClient.isRetryableError
isRetryableError(error) ==
    IF error.isAxiosError
    THEN \/ error.status = 0
         \/ error.status >= 500
         \/ error.status = 429
         \/ error.ecode \in {"ECONNREFUSED", "ENOTFOUND", "ECONNABORTED"}
    ELSE FALSE

\* ------------------------------------------------------------------------
\* Response bodies and normalization
\* ------------------------------------------------------------------------
NaN == [t |-> "NaN", n |-> 0, s |-> <<>>]

DigitValue(c) ==
    CASE c = "0" -> 0 [] c = "1" -> 1 [] c = "2" -> 2 [] c = "3" -> 3 [] c = "4" -> 4
      [] c = "5" -> 5 [] c = "6" -> 6 [] c = "7" -> 7 [] c = "8" -> 8 [] c = "9" -> 9

RECURSIVE ParseDigits(_, _)
ParseDigits(s, acc) ==
    IF s = <<>> \/ Head(s) \notin Digits THEN acc
    ELSE ParseDigits(Tail(s), acc * 10 + DigitValue(Head(s)))

\* parseInt on an unsigned string: the longest prefix of digits, NaN if empty
parseInt(s) ==
    IF s = <<>> \/ Head(s) \notin Digits THEN NaN ELSE Num(ParseDigits(s, 0))

\* the longest prefix of digits
RECURSIVE DigitPrefix(_)
DigitPrefix(s) ==
    IF s = <<>> \/ Head(s) \notin Digits THEN <<>> ELSE <<Head(s)>> \o DigitPrefix(Tail(s))

\* a fraction without the zeros at its end
RECURSIVE SignificantFraction(_)
SignificantFraction(s) ==
    IF s # <<>> /\ s[Len(s)] = "0" THEN SignificantFraction(SubSeq(s, 1, Len(s) - 1)) ELSE s

\* parseFloat on an unsigned string without exponent: digits, a point,
\* digits; the number n.s has integer part n and the fraction digits s
parseFloat(s) ==
    LET int == DigitPrefix(s)
        rest == SubSeq(s, Len(int) + 1, Len(s))
        frac == IF rest # <<>> /\ Head(rest) = "." THEN DigitPrefix(Tail(rest)) ELSE <<>>
    IN IF int = <<>> /\ frac = <<>> THEN NaN
       ELSE [t |-> "number", n |-> ParseDigits(int, 0), s |-> SignificantFraction(frac)]

\* v || 0 for every value: a numeric string stays a string
NumberFieldAsSent(v) == IF Truthy(v) THEN v ELSE Num(0)

\* typeof v === 'string' ? parseInt(v) : (v || 0)
NumberField(v) ==
    IF v.t = "string" THEN parseInt(v.s)
    ELSE IF Truthy(v) THEN v ELSE Num(0)

\* typeof v === 'string' ? parseFloat(v) : v || 0
FloatField(v) ==
    IF v.t = "string" THEN parseFloat(v.s)
    ELSE IF Truthy(v) THEN v ELSE Num(0)

\* v || ''
TextField(v) == IF Truthy(v) THEN v ELSE Str(<<>>)

\* Boolean(v)
Bool(b) == [t |-> "boolean", n |-> IF b THEN 1 ELSE 0, s |-> <<>>]
BooleanField(v) == Bool(Truthy(v) \/ (v.t = "boolean" /\ v.n = 1))

\* the fields normalizeBookItem sets, by the expression that sets them
PARSE_INT_FIELDS ==
    {"itemId", "priceSales", "priceStandard", "categoryId", "salesPoint", "mileage"}
PARSE_FLOAT_FIELDS == {"customerReviewRank"}
TEXT_FIELDS ==
    {"title", "author", "publisher", "pubDate", "description", "isbn", "isbn13", "cover",
     "categoryName", "stockStatus", "mallType", "link"}
BOOLEAN_FIELDS == {"adult", "fixedPrice"}

\* item.<field>, undefined for a field the item does not have
ItemField(item, field) == IF field \in DOMAIN item THEN item[field] ELSE Undef

\* { ...item, itemId: ..., title: ..., ... }
normalizeBookItem(item) ==
    [field \in DOMAIN item \cup PARSE_INT_FIELDS \cup PARSE_FLOAT_FIELDS
                           \cup TEXT_FIELDS \cup BOOLEAN_FIELDS |->
        CASE field \in PARSE_INT_FIELDS -> NumberField(ItemField(item, field))
          [] field \in PARSE_FLOAT_FIELDS -> FloatField(ItemField(item, field))
          [] field \in TEXT_FIELDS -> TextField(ItemField(item, field))
          [] field \in BOOLEAN_FIELDS -> BooleanField(ItemField(item, field))
          [] OTHER -> item[field]]

RECURSIVE MapItems(_)
MapItems(items) ==
    IF items = <<>> THEN <<>>
    ELSE <<normalizeBookItem(Head(items))>> \o MapItems(Tail(items))

\* a body is [isObject, errorCode, hasItem, item]; hasItem = FALSE: no item
\* array; isObject = FALSE: response.data is the empty string of an empty body
normalizeResponse(body) ==
    [kind |-> "response", errorCode |-> body.errorCode,
     item |-> MapItems(IF body.hasItem THEN body.item ELSE <<>>)]

\* getBookDetails: item[0] of the normalized response, or null
LookupData(body) ==
    LET r == normalizeResponse(body) IN
    IF Len(r.item) > 0
    THEN [kind |-> "item", errorCode |-> 0, item |-> <<r.item[1]>>]
    ELSE [kind |-> "null", errorCode |-> 0, item |-> <<>>]

Null == [kind |-> "null", errorCode |-> 0, item |-> <<>>]

\* normalize*Response on a body that is no object: in a module (strict mode)
\* response.item = [] on a string throws
NormalizeThrows(body) == ~body.isObject

\* if (cached): every object is truthy, null is not
DataTruthy(data) == data.kind # "null"

\* ------------------------------------------------------------------------
\* Rate limiter (utils/rate-limiter.ts), for the key of the client.
\* currentDelay is a float in the code: it is kept here in sixteenths of a
\* millisecond, which is exact for 200 * 1.5^k below the cap.
\* nextAllowedTime = now + currentDelay is [ms, f16]: ms + f16/16.
\* ------------------------------------------------------------------------
DEFAULT_REQUEST_INTERVAL == 200
BURST_LIMIT == 10
BURST_WINDOW == 1000
BACKOFF_MULTIPLIER_NUM == 3
BACKOFF_MULTIPLIER_DEN == 2
MAX_BACKOFF_DELAY == 5000
TTB_VALIDATION_INTERVAL == 86400000
FREQUENCY_WINDOW == 1000
FREQUENCY_LIMIT == 5
HISTORY_WINDOW == 60000
MS_PER_DAY == 86400000
DelayScale == 16

MonthLengths == <<31, 28, 31, 30, 31, 30, 31, 31, 30, 31, 30, 31>>

RECURSIVE DateIn(_, _)
DateIn(d, m) ==
    IF d < MonthLengths[m] THEN d + 1 ELSE DateIn(d - MonthLengths[m], m + 1)

\* the number of whole days from 1 January 1970 to t (UTC)
DayNumber(t) == (t + (Epoch % MS_PER_DAY)) \div MS_PER_DAY + (Epoch \div MS_PER_DAY)

\* Date.prototype.getDate(): the day of the month (UTC, year 1970)
getDate(t) == DateIn(DayNumber(t) % 365, 1)

\* setDate(getDate() + 1); setHours(0, 0, 0, 0): the next midnight after t
NextMidnight(t) == t - ((t + (Epoch % MS_PER_DAY)) % MS_PER_DAY) + MS_PER_DAY

RECURSIVE AddDays(_, _)
AddDays(t, d) == IF d = 0 THEN t ELSE AddDays(t + MS_PER_DAY, d - 1)

AlnumDot ==
    Digits \cup {"."} \cup
    {"a", "b", "c", "d", "e", "f", "g", "h", "i", "j", "k", "l", "m",
     "n", "o", "p", "q", "r", "s", "t", "u", "v", "w", "x", "y", "z",
     "A", "B", "C", "D", "E", "F", "G", "H", "I", "J", "K", "L", "M",
     "N", "O", "P", "Q", "R", "S", "T", "U", "V", "W", "X", "Y", "Z"}

\* /^ttb[a-zA-Z0-9.]+$/
TTB_KEY_PATTERN(k) ==
    /\ Len(k) >= 4
    /\ k[1] = "t" /\ k[2] = "t" /\ k[3] = "b"
    /\ \A i \in 4..Len(k) : k[i] \in AlnumDot

NoUsage ==
    [exists |-> FALSE, dailyCount |-> 0, lastReset |-> 0, lastCall |-> 0,
     lastValidation |-> 0 - Epoch, isValid |-> TRUE, requestHistory |-> <<>>,
     totalRequests |-> 0, successfulRequests |-> 0, failedRequests |-> 0]

getTtbKeyUsage(u, t) ==
    IF u.exists THEN u
    ELSE [NoUsage EXCEPT !.exists = TRUE, !.lastReset = t, !.lastCall = t]

NoRateLimitState ==
    [exists |-> FALSE, isBlocked |-> FALSE, nextAllowedTime |-> [ms |-> 0, f16 |-> 0],
     currentDelay |-> DEFAULT_REQUEST_INTERVAL * DelayScale,
     burstCount |-> 0, lastBurstReset |-> 0]

getRateLimitState(r, t) ==
    IF r.exists THEN r
    ELSE [NoRateLimitState EXCEPT !.exists = TRUE, !.lastBurstReset = t]

resetDailyUsage(u, t) == [u EXCEPT !.dailyCount = 0, !.lastReset = t]

\* recordApiCall: the per-key part
recordApiCall(u, t, success) ==
    LET u0 == getTtbKeyUsage(u, t) IN
    [u0 EXCEPT !.dailyCount = @ + 1,
               !.lastCall = t,
               !.totalRequests = @ + 1,
               !.successfulRequests = IF success THEN @ + 1 ELSE @,
               !.failedRequests = IF success THEN @ ELSE @ + 1,
               !.requestHistory =
                   SelectSeq(Append(@, t), LAMBDA h : t <= h + HISTORY_WINDOW)]

\* recordApiCall: globalUsageStats
recordGlobal(g, t) == [g EXCEPT !.dailyCount = @ + 1, !.lastCall = t]

\* checkDailyLimit with a limit that is reached only above dailyLimit
checkDailyLimitAbove(u, t) ==
    LET u1 == IF getDate(t) # getDate(u.lastReset) THEN resetDailyUsage(u, t) ELSE u IN
    [usage |-> u1,
     err |-> IF u1.dailyCount > DAILY_API_LIMIT THEN handleApiLimitExceeded ELSE NoError]

\* checkDailyLimit: [usage, err]
checkDailyLimit(u, t) ==
    LET u1 == IF getDate(t) # getDate(u.lastReset) THEN resetDailyUsage(u, t) ELSE u IN
    [usage |-> u1,
     err |-> IF u1.dailyCount >= DAILY_API_LIMIT THEN handleApiLimitExceeded ELSE NoError]

\* validateTtbKey: [usage, err]
validateTtbKey(u, t, key) ==
    IF t > u.lastValidation + TTB_VALIDATION_INTERVAL \/ ~u.isValid
    THEN IF ~TTB_KEY_PATTERN(key)
         THEN [usage |-> [u EXCEPT !.isValid = FALSE], err |-> handleInvalidTtbKey]
         ELSE [usage |-> [u EXCEPT !.isValid = TRUE, !.lastValidation = t], err |-> NoError]
    ELSE [usage |-> u, err |-> NoError]

\* checkRateLimit up to its first await: checkDailyLimit, then the body of
\* validateTtbKey
checkRateLimitHead(u, t, key) ==
    LET d == checkDailyLimit(getTtbKeyUsage(u, t), t) IN
    IF d.err # NoError THEN d ELSE validateTtbKey(d.usage, t, key)

BeforeAllowed(t, nat) == t < nat.ms \/ (t = nat.ms /\ nat.f16 > 0)

Min(a, b) == IF a <= b THEN a ELSE b

\* Math.min(currentDelay * BACKOFF_MULTIPLIER, MAX_BACKOFF_DELAY), in sixteenths
NextDelay(cd) ==
    IF cd * BACKOFF_MULTIPLIER_NUM >= MAX_BACKOFF_DELAY * DelayScale * BACKOFF_MULTIPLIER_DEN
    THEN MAX_BACKOFF_DELAY * DelayScale
    ELSE (cd * BACKOFF_MULTIPLIER_NUM) \div BACKOFF_MULTIPLIER_DEN

\* checkRequestFrequency up to its await: [state, err, sleep]; sleep is the
\* setTimeout delay in whole milliseconds, 0 when the call is not delayed
checkRequestFrequency(r, u, t) ==
    IF r.isBlocked /\ BeforeAllowed(t, r.nextAllowedTime)
    THEN [state |-> r, sleep |-> 0,
          err |-> handleGenericError(StandardError(0, <<"RETRY_LATER">>, 0), "RATE_LIMIT_BLOCKED")]
    ELSE LET r1 == IF r.isBlocked
                   THEN [r EXCEPT !.isBlocked = FALSE,
                                  !.currentDelay = DEFAULT_REQUEST_INTERVAL * DelayScale]
                   ELSE r
             recent == SelectSeq(u.requestHistory, LAMBDA h : t <= h + FREQUENCY_WINDOW)
         IN IF Len(recent) >= FREQUENCY_LIMIT
            THEN LET cd == NextDelay(r1.currentDelay) IN
                 [state |-> [r1 EXCEPT !.currentDelay = cd,
                                       !.isBlocked = TRUE,
                                       !.nextAllowedTime =
                                           [ms |-> t + cd \div DelayScale, f16 |-> cd % DelayScale]],
                  sleep |-> cd \div DelayScale, err |-> NoError]
            ELSE [state |-> r1, sleep |-> 0, err |-> NoError]

\* checkBurstLimit with a limit that is reached only above BURST_LIMIT
checkBurstLimitAbove(r, t) ==
    LET r1 == IF t > r.lastBurstReset + BURST_WINDOW
              THEN [r EXCEPT !.burstCount = 0, !.lastBurstReset = t]
              ELSE r
    IN IF r1.burstCount > BURST_LIMIT
       THEN [state |-> r1,
             err |-> handleGenericError(StandardError(0, <<"RETRY_LATER">>, 0), "BURST_LIMIT_EXCEEDED")]
       ELSE [state |-> [r1 EXCEPT !.burstCount = @ + 1], err |-> NoError]

\* checkBurstLimit: [state, err]
checkBurstLimit(r, t) ==
    LET r1 == IF t > r.lastBurstReset + BURST_WINDOW
              THEN [r EXCEPT !.burstCount = 0, !.lastBurstReset = t]
              ELSE r
    IN IF r1.burstCount >= BURST_LIMIT
       THEN [state |-> r1,
             err |-> handleGenericError(StandardError(0, <<"RETRY_LATER">>, 0), "BURST_LIMIT_EXCEEDED")]
       ELSE [state |-> [r1 EXCEPT !.burstCount = @ + 1], err |-> NoError]

\* ------------------------------------------------------------------------
\* Circuit breaker (client.ts).  NoDate is circuitBreakerLastFailure = null.
\* A breaker is [failures, lastFailure].
\* ------------------------------------------------------------------------
NoDate == -1

handleCircuitBreaker(b, t) == [failures |-> b.failures + 1, lastFailure |-> t]

\* the cooldown compared with <= : still open at exactly the cooldown
checkCircuitBreakerInclusive(b, t) ==
    IF b.failures >= CIRCUIT_BREAKER_THRESHOLD /\ b.lastFailure # NoDate
    THEN IF t <= b.lastFailure + CIRCUIT_BREAKER_TIMEOUT
         THEN [breaker |-> b, err |-> createStandardError(SYSTEM_ERROR, <<"CIRCUIT_OPEN">>)]
         ELSE [breaker |-> [failures |-> 0, lastFailure |-> NoDate], err |-> NoError]
    ELSE [breaker |-> b, err |-> NoError]

\* checkCircuitBreaker: [breaker, err]
checkCircuitBreaker(b, t) ==
    IF b.failures >= CIRCUIT_BREAKER_THRESHOLD /\ b.lastFailure # NoDate
    THEN IF t < b.lastFailure + CIRCUIT_BREAKER_TIMEOUT
         THEN [breaker |-> b, err |-> createStandardError(SYSTEM_ERROR, <<"CIRCUIT_OPEN">>)]
         ELSE [breaker |-> [failures |-> 0, lastFailure |-> NoDate], err |-> NoError]
    ELSE [breaker |-> b, err |-> NoError]

\* ------------------------------------------------------------------------
\* Cache (client.ts): a Map in insertion order, as a sequence of
\* [key, data, timestamp, ttl]
\* ------------------------------------------------------------------------
CacheHas(c, key) == \E i \in 1..Len(c) : c[i].key = key

CacheIndex(c, key) == CHOOSE i \in 1..Len(c) : c[i].key = key

CacheDelete(c, key) == SelectSeq(c, LAMBDA e : e.key # key)

\* the TTL taken for seconds
ExpiredSeconds(entry, t) == t > entry.timestamp + entry.ttl \div 1000

\* the TTL compared with >= : expired at exactly the TTL
ExpiredAtTtl(entry, t) == t >= entry.timestamp + entry.ttl

\* the TTL test of getFromCache
Expired(entry, t) == t > entry.timestamp + entry.ttl

\* a read that moves the entry it returns behind every other entry
getFromCacheTouch(c, key, t) ==
    IF ~CacheHas(c, key) THEN [cache |-> c, found |-> FALSE, data |-> Null]
    ELSE LET entry == c[CacheIndex(c, key)] IN
         IF Expired(entry, t)
         THEN [cache |-> CacheDelete(c, key), found |-> FALSE, data |-> Null]
         ELSE [cache |-> Append(CacheDelete(c, key), entry), found |-> TRUE,
               data |-> entry.data]

\* getFromCache: [cache, found, data]; data is Null when it returns null
getFromCache(c, key, t) ==
    IF ~CacheHas(c, key) THEN [cache |-> c, found |-> FALSE, data |-> Null]
    ELSE LET entry == c[CacheIndex(c, key)] IN
         IF Expired(entry, t)
         THEN [cache |-> CacheDelete(c, key), found |-> FALSE, data |-> Null]
         ELSE [cache |-> c, found |-> TRUE, data |-> entry.data]

\* a store that never removes the oldest entry
setCacheNoEviction(c, key, data, ttl, t) ==
    LET e == [key |-> key, data |-> data, timestamp |-> t, ttl |-> ttl]
    IN IF CacheHas(c, key)
       THEN [c EXCEPT ![CacheIndex(c, key)] = e]
       ELSE Append(c, e)

\* setCache
setCache(c, key, data, ttl, t) ==
    LET c1 == IF Len(c) >= MAX_CACHE_SIZE THEN Tail(c) ELSE c
        e == [key |-> key, data |-> data, timestamp |-> t, ttl |-> ttl]
    IN IF CacheHas(c1, key)
       THEN [c1 EXCEPT ![CacheIndex(c1, key)] = e]
       ELSE Append(c1, e)

\* ------------------------------------------------------------------------
\* Inputs: the calls a caller makes and the answers of the upstream
\* ------------------------------------------------------------------------
Procs == {1, 2}

Methods == {"search", "lookup", "bestseller", "newreleases", "itemlist"}

IsList(m) == m \in {"bestseller", "newreleases", "itemlist"}

M(k, v) == [k |-> k, v |-> v]

ValidIsbn13 == <<"9", "7", "8", "0", "7", "4", "7", "5", "3", "2", "6", "9", "9">>

AllRequests ==
    {[method |-> "search", params |-> q] :
        q \in {<<M("Query", Str(<<"a">>)), M("MaxResults", Num(10))>>,
               <<M("Query", Str(<<>>))>>,
               <<M("Query", Str(<<"a">>)), M("MaxResults", Num(0))>>}}
    \cup {[method |-> "lookup", params |-> q] :
             q \in {<<M("ISBN13", Str(ValidIsbn13))>>, <<>>}}
    \cup {[method |-> "bestseller", params |-> q] : q \in {<<>>, <<M("Month", Num(13))>>}}
    \cup {[method |-> "newreleases", params |-> q] :
             q \in {<<M("QueryType", Str(<<"NewBook">>))>>}}
    \cup {[method |-> "itemlist", params |-> q] : q \in {<<>>}}

Item1 == [itemId |-> Num(7), title |-> Str(<<"T">>), priceSales |-> Str(<<"1", "5">>)]

\* an answer to one HTTP attempt: status 0 is a transport failure without
\* response, ecode is error.code of the AxiosError ("" when it has none)
Answer(status, ecode, errorCode, hasItem, item) ==
    [status |-> status, ecode |-> ecode,
     body |-> [isObject |-> TRUE, errorCode |-> errorCode, hasItem |-> hasItem,
               item |-> item]]

OK_ITEMS == Answer(200, "", 0, TRUE, <<Item1>>)
OK_EMPTY == Answer(200, "", 0, FALSE, <<>>)
HTTP_400 == Answer(400, "", MISSING_REQUIRED_PARAM, FALSE, <<>>)
HTTP_404 == Answer(404, "", 0, FALSE, <<>>)
HTTP_429 == Answer(429, "", 0, FALSE, <<>>)
HTTP_500 == Answer(500, "", 0, FALSE, <<>>)
NETWORK_ERROR == Answer(0, "", 0, FALSE, <<>>)
TIMEOUT == Answer(0, "ECONNABORTED", 0, FALSE, <<>>)
\* status 200 with an error object as body: {errorCode, errorMessage}
OK_ERROR == Answer(200, "", INVALID_PARAM_VALUE, FALSE, <<>>)
\* status 200 with an empty body
OK_MALFORMED == [OK_EMPTY EXCEPT !.body.isObject = FALSE]

\* what the upstream answers to the attempts of one call: attempt k gets
\* plan[k], attempts past the end get the last answer; the plan is drawn
\* when the first answer arrives
AllPlans ==
    {<<OK_ITEMS>>, <<HTTP_400>>, <<HTTP_404>>, <<HTTP_429>>, <<HTTP_500>>, <<TIMEOUT>>,
     <<HTTP_500, OK_ITEMS>>, <<NETWORK_ERROR, OK_ITEMS>>}

PlanAt(plan, k) == plan[Min(k, Len(plan))]

IsSuccess(answer) == answer.status >= 200 /\ answer.status < 300

ValidKey == <<"t", "t", "b", "k", ".", "1">>
TestKey == <<"t", "e", "s", "t", "-", "k">>
TtbKeys == {ValidKey, TestKey}

\* What a scenario lets the caller and the upstream do.
\*   "retry":      a search and a list call against every plan, two calls
\*                 in flight at a time
\*   "cache":      searches, a lookup and a list call that the upstream
\*                 answers with 200
\*   "validation": every endpoint method with valid and invalid parameters
\*   "breaker":    one search against an upstream that answers 500 or 200
\*   "quota":      calls of a key that has used up its daily quota, or all
\*                 but one call of it, over days in which the process may
\*                 stay idle
\*   "burst":      one list call, valid or invalid, against an upstream that
\*                 answers 500, 200 or 200 with an empty body
\*   "tools":      calls made by tool invocations, each through the client
\*                 that the tool handler constructs
\*   "interleave": a search and a list call, two calls in flight at a time,
\*                 on a client whose last CIRCUIT_BREAKER_THRESHOLD - 1
\*                 requests have failed
Scenarios == {"retry", "cache", "validation", "breaker", "quota", "burst", "tools"}

SearchA == <<M("Query", Str(<<"a">>)), M("MaxResults", Num(10))>>

Requests(sc) ==
    CASE sc = "retry" ->
           {[method |-> "search", params |-> SearchA],
            [method |-> "bestseller", params |-> <<>>]}
      [] sc = "cache" ->
           {[method |-> "search", params |-> SearchA],
            [method |-> "search",
             params |-> <<M("MaxResults", Num(10)), M("Query", Str(<<"a">>))>>],
            [method |-> "lookup", params |-> <<M("ISBN13", Str(ValidIsbn13))>>],
            [method |-> "bestseller", params |-> <<>>]}
      [] sc = "breaker" -> {[method |-> "search", params |-> SearchA]}
      [] sc = "quota" ->
           {[method |-> "search", params |-> SearchA],
            [method |-> "lookup", params |-> <<M("ISBN13", Str(ValidIsbn13))>>],
            [method |-> "bestseller", params |-> <<>>]}
      [] sc = "burst" ->
           {[method |-> "bestseller", params |-> <<>>],
            [method |-> "bestseller", params |-> <<M("Month", Num(13))>>]}
      [] sc = "tools" ->
           {[method |-> "search", params |-> SearchA],
            [method |-> "bestseller", params |-> <<>>]}
      [] sc = "interleave" ->
           {[method |-> "search", params |-> SearchA],
            [method |-> "bestseller", params |-> <<>>],
            [method |-> "bestseller", params |-> <<M("Month", Num(13))>>]}
      [] OTHER -> AllRequests

Plans(sc) ==
    CASE sc = "retry" -> AllPlans
      [] sc = "cache" -> {<<OK_ITEMS>>, <<OK_EMPTY>>}
      [] sc = "breaker" -> {<<HTTP_500>>, <<OK_ITEMS>>}
      [] sc = "quota" -> {<<HTTP_500>>, <<OK_ITEMS>>}
      [] sc = "burst" -> {<<HTTP_500>>, <<OK_ITEMS>>, <<OK_MALFORMED>>}
      [] sc = "tools" -> {<<HTTP_500>>, <<OK_ITEMS>>}
      [] sc = "interleave" -> {<<HTTP_400>>, <<HTTP_500>>, <<OK_ITEMS>>, <<OK_ERROR>>}
      [] OTHER -> {<<OK_ITEMS>>}

CallBudget(sc) ==
    CASE sc = "retry" -> MaxRetryCalls
      [] sc = "cache" -> MaxCacheCalls
      [] sc = "breaker" -> MaxBreakerCalls
      [] sc = "quota" -> MaxQuotaCalls
      [] sc = "burst" -> MaxBurstCalls
      [] sc = "tools" -> MaxToolCalls
      [] sc = "interleave" -> MaxInterleaveCalls
      [] OTHER -> MaxValidationCalls

\* how many times the clock advances: opening the breaker takes
\* CIRCUIT_BREAKER_THRESHOLD failing calls, the call after them waits for the
\* frequency window, and only then can the cooldown pass
TickBudget(sc) ==
    CASE sc = "breaker" -> MaxBreakerTicks
      [] sc = "quota" -> MaxQuotaTicks
      [] OTHER -> MaxTicks

\* how far the clock runs: in the scenario "quota" over the days of idleness
MaxTimeOf(sc) ==
    IF sc = "quota" THEN AddDays(NextMidnight(TStart), MaxIdleDays - 1) ELSE MaxTime

\* a tool handler constructs its own client: new AladinApiClient()
NewClientPerCall(sc) == sc = "tools"

\* how many calls the caller keeps in flight at a time
InFlight(sc) == IF sc \in {"retry", "interleave"} THEN 2 ELSE 1

\* ------------------------------------------------------------------------
\* Endpoint methods
\* ------------------------------------------------------------------------
\* { ...params, QueryType: 'Bestseller' }
WithQueryType(params, v) ==
    IF Has(params, "QueryType")
    THEN [i \in 1..Len(params) |->
             IF params[i].k = "QueryType" THEN M("QueryType", v) ELSE params[i]]
    ELSE Append(params, M("QueryType", v))

FullParams(m, params) ==
    IF m = "bestseller" THEN WithQueryType(params, Str(<<"Bestseller">>)) ELSE params

Validate(m, params) ==
    CASE m = "search" -> validateSearchParams(params)
      [] m = "lookup" -> validateLookupParams(params)
      [] OTHER -> validateListParams(params)

Ttl(m) ==
    CASE m = "search" -> SEARCH_TTL
      [] m = "lookup" -> LOOKUP_TTL
      [] OTHER -> LIST_TTL

\* the value an endpoint method returns and caches for a response body
ResponseData(m, body) == IF m = "lookup" THEN LookupData(body) ELSE normalizeResponse(body)

\* the error thrown when validation fails
ValidationError(m, errors) ==
    IF IsList(m) THEN createStandardError(INVALID_PARAM_VALUE, errors)
    ELSE handleValidationError(errors)

\* searchBooks and getBookDetails run the whole body inside try/catch and
\* record the call in the catch block; the list methods do neither
RecordsUsage(m) == ~IsList(m)

\* the error handler of the response interceptor: what requestFn rejects with
ResponseInterceptorError(raw) == handleApiError(raw)

\* retryRequest: the backoff before the retry that follows attempt number attempt
RECURSIVE Pow(_, _)
Pow(b, e) == IF e = 0 THEN 1 ELSE b * Pow(b, e - 1)

RetryBaseDelay(attempt) ==
    Min(RETRY_DELAY * Pow(RETRY_MULTIPLIER, attempt - 1), MAX_RETRY_DELAY)

\* ------------------------------------------------------------------------
\* State
\* ------------------------------------------------------------------------
VARIABLES
    scenario,           \* what the environment does, fixed at the start
    now,                \* Date.now()
    ticks,              \* number of times the clock was advanced
    ttbKey,             \* AladinApiClient.ttbKey
    cache,              \* AladinApiClient.cache
    breaker,            \* circuitBreakerFailures, circuitBreakerLastFailure
    usage,              \* ttbKeyUsages.get(ttbKey)
    globalUsageStats,   \* AladinRateLimiter.globalUsageStats
    rateLimitState,     \* rateLimitStates.get(ttbKey)
    proc,               \* the calls in flight, one per logical flow
    started,            \* number of endpoint calls made so far
    httpCount,          \* number of HTTP requests issued so far
    last,               \* the call that settled last
    resetAt,            \* when the timer of setupDailyReset is due
    probe,              \* createCacheKey applied to two parameter objects
    toolCall,           \* the tools/call request the server is handling
    isbnProbe,          \* the ISBN validators applied to one value
    cacheLog,           \* the order in which the keys of the cache were inserted
    fnCall              \* a function of the error handler, the validators or the client applied to one argument

vars ==
    <<scenario, now, ticks, ttbKey, cache, breaker, usage, globalUsageStats, rateLimitState,
      proc, started, httpCount, last, resetAt, probe, toolCall, isbnProbe, cacheLog,
      fnCall>>

IdleProc ==
    [pc |-> "idle", method |-> "search", params |-> <<>>,
     key |-> createCacheKey("search", <<>>), plan |-> <<OK_ITEMS>>,
     retries |-> 0, nHttp |-> 0, wakeAt |-> 0, err |-> NoError,
     stage |-> "", alone |-> TRUE]

NoCall ==
    [settled |-> FALSE, method |-> "search", params |-> <<>>, plan |-> <<OK_ITEMS>>,
     nHttp |-> 0, ok |-> FALSE, data |-> Null, err |-> NoError, stage |-> "",
     alone |-> TRUE, endTime |-> 0, cleared |-> FALSE, followed |-> FALSE]

\* The rate limiter is a singleton of the process and outlives the clients:
\* a new client finds in it what the calls of earlier clients recorded.
\* PriorCalls is the number of searches with invalid parameters (each one
\* recordApiCall(ttbKey, false)) made at TStart before the client is constructed.
PriorCalls == {0, FREQUENCY_LIMIT}

RECURSIVE RecordFailures(_, _, _)
RecordFailures(u, t, n) ==
    IF n = 0 THEN u ELSE RecordFailures(recordApiCall(u, t, FALSE), t, n - 1)

\* n such searches, the first at t and each PriorGap after the one before
RECURSIVE RecordSpaced(_, _, _)
RecordSpaced(u, t, n) ==
    IF n = 0 THEN u
    ELSE IF n = 1 THEN recordApiCall(u, t, FALSE)
    ELSE LET half == RecordSpaced(u, t, n \div 2) IN
         IF half.exists
         THEN RecordSpaced(half, t + (n \div 2) * PriorGap, n - n \div 2)
         ELSE half

\* In the scenario "quota" the earlier clients have used up the quota of the
\* day, or all of it but one call: the last FREQUENCY_LIMIT of their calls
\* were made at TStart, the others on the same day and more than
\* HISTORY_WINDOW before.
PriorCallsOf(sc) ==
    IF sc = "quota" THEN {DAILY_API_LIMIT - 1, DAILY_API_LIMIT} ELSE PriorCalls

PriorUsage(n) ==
    IF n <= FREQUENCY_LIMIT THEN RecordFailures(NoUsage, TStart, n)
    ELSE RecordFailures(
             RecordSpaced(NoUsage,
                          TStart - HISTORY_WINDOW - 1 - (n - FREQUENCY_LIMIT - 1) * PriorGap,
                          n - FREQUENCY_LIMIT),
             TStart, FREQUENCY_LIMIT)

NoIsbnProbe ==
    [stage |-> "none", input |-> Undef, isbn10 |-> <<>>, isbn13 |-> <<>>, isbn |-> <<>>,
     lookupIsbn |-> <<>>, lookupIsbn13 |-> <<>>]

NoFnCall == [stage |-> "none", fn |-> "", arg |-> Undef, result |-> Undef]

\* inserted: for every key in the Map, the number of the insertion that put
\* it there; op, key, found: the last call of setCache or getFromCache
NoCacheLog ==
    [ops |-> 0, inserted |-> {}, op |-> "none", key |-> createCacheKey("", <<>>),
     found |-> FALSE]

NoToolCall ==
    [stage |-> "none", name |-> "", args |-> "undefined", outcome |-> [kind |-> "none", code |-> 0],
     result |-> [envelope |-> FALSE, success |-> FALSE, errorCode |-> 0, data |-> FALSE],
     served |-> 0]

NoProbe ==
    [stage |-> "none", endpoint |-> "search", p1 |-> <<>>, p2 |-> <<>>,
     k1 |-> createCacheKey("search", <<>>), k2 |-> createCacheKey("search", <<>>)]

\* new AladinApiClient()
FreshClient ==
    /\ now = TStart
    /\ ticks = 0
    /\ cache = <<>>
    /\ breaker = [failures |-> 0, lastFailure |-> NoDate]
    /\ rateLimitState = NoRateLimitState
    /\ proc = [p \in Procs |-> IdleProc]
    /\ started = 0
    /\ httpCount = 0
    /\ last = NoCall

\* the state after new AladinApiClient() in scenario sc
InitOf(sc) ==
    /\ scenario = sc
    /\ ttbKey \in TtbKeys
    /\ \E n \in PriorCallsOf(sc) :
         /\ usage = PriorUsage(n)
         /\ globalUsageStats = [dailyCount |-> n, lastCall |-> TStart]
    /\ resetAt = NextMidnight(TStart)
    /\ FreshClient
    /\ probe = NoProbe
    /\ toolCall = NoToolCall
    /\ isbnProbe = NoIsbnProbe
    /\ cacheLog = NoCacheLog
    /\ fnCall = NoFnCall

InitRetry == InitOf("retry")

InitCache == InitOf("cache")

InitValidation == InitOf("validation")

InitBreaker == InitOf("breaker")

InitQuota == InitOf("quota")

InitBurst == InitOf("burst")

InitTools == InitOf("tools")

\* a client whose earlier calls, one short of CIRCUIT_BREAKER_THRESHOLD, have
\* just been answered with an error status
InitInterleave ==
    /\ scenario = "interleave"
    /\ ttbKey \in TtbKeys
    /\ usage = PriorUsage(CIRCUIT_BREAKER_THRESHOLD - 1)
    /\ globalUsageStats = [dailyCount |-> CIRCUIT_BREAKER_THRESHOLD - 1, lastCall |-> TStart]
    /\ resetAt = NextMidnight(TStart)
    /\ now = TStart
    /\ ticks = 0
    /\ cache = <<>>
    /\ breaker = [failures |-> CIRCUIT_BREAKER_THRESHOLD - 1, lastFailure |-> TStart]
    /\ rateLimitState = NoRateLimitState
    /\ proc = [p \in Procs |-> IdleProc]
    /\ started = 0
    /\ httpCount = 0
    /\ last = NoCall
    /\ probe = NoProbe
    /\ toolCall = NoToolCall
    /\ isbnProbe = NoIsbnProbe
    /\ cacheLog = NoCacheLog
    /\ fnCall = NoFnCall

\* the record of a settled call: ok = TRUE when it resolved with data
Settled(rec, ok, data, err, stage, t) ==
    [settled |-> TRUE, method |-> rec.method, params |-> rec.params,
     plan |-> rec.plan, nHttp |-> rec.nHttp, ok |-> ok, data |-> data, err |-> err,
     stage |-> stage, alone |-> rec.alone, endTime |-> t, cleared |-> FALSE,
     followed |-> FALSE]

\* the error the caller receives when the error thrown is thrown at stage:
\* searchBooks and getBookDetails catch everything and pass it through
\* handleApiError; a list method does so only around retryRequest
CatchError(m, thrown, stage) ==
    IF RecordsUsage(m) \/ stage \in {"http", "normalization"}
    THEN handleApiError(thrown) ELSE thrown

\* the call rec settles with the error thrown at stage; u is the usage the
\* stage left
Reject(rec, thrown, stage, u) ==
    /\ last' = Settled(rec, FALSE, Null, CatchError(rec.method, thrown, stage), stage, now)
    /\ usage' = IF RecordsUsage(rec.method) THEN recordApiCall(u, now, FALSE) ELSE u
    /\ globalUsageStats' =
           IF RecordsUsage(rec.method) THEN recordGlobal(globalUsageStats, now)
           ELSE globalUsageStats

\* the call rec settles with data
Resolve(rec, data, stage) ==
    last' = Settled(rec, TRUE, data, NoError, stage, now)

\* an error thrown inside checkRateLimit reaches the catch block of
\* searchBooks / getBookDetails only after the promise chain has unwound
\* (pc "rejecting"); a list method has no catch block there and settles
Throw(p, rec, thrown, stage, u) ==
    IF RecordsUsage(rec.method)
    THEN /\ proc' = [proc EXCEPT ![p] = [rec EXCEPT !.pc = "rejecting",
                                                  !.err = thrown, !.stage = stage]]
         /\ usage' = u
         /\ UNCHANGED <<globalUsageStats, last>>
    ELSE /\ proc' = [proc EXCEPT ![p] = IdleProc]
         /\ Reject(rec, thrown, stage, u)

\* the cache and the breaker of the client through which a call is made:
\* those of the one client, or of the client constructed for the call
ClientCache == IF NewClientPerCall(scenario) THEN <<>> ELSE cache

ClientBreaker ==
    IF NewClientPerCall(scenario) THEN [failures |-> 0, lastFailure |-> NoDate]
    ELSE breaker

\* ------------------------------------------------------------------------
\* Actions
\* ------------------------------------------------------------------------
\* an endpoint method is called: validation, cache lookup and
\* checkRateLimit up to its first await
Start(p) ==
    /\ proc[p].pc = "idle"
    /\ \A q \in Procs : q < p => proc[q].pc # "idle"
    /\ Cardinality({q \in Procs : proc[q].pc # "idle"}) < InFlight(scenario)
    /\ started < CallBudget(scenario)
    /\ \E req \in Requests(scenario) :
         LET m == req.method
             params == FullParams(m, req.params)
             errors == Validate(m, params)
             key == createCacheKey(m, params)
             got == getFromCache(ClientCache, key, now)
             others == [q \in Procs |->
                          IF proc[q].pc # "idle" THEN [proc[q] EXCEPT !.alone = FALSE]
                          ELSE proc[q]]
             rec == [IdleProc EXCEPT !.method = m, !.params = params,
                                     !.key = key,
                                     !.alone = \A q \in Procs \ {p} : proc[q].pc = "idle"]
             head == checkRateLimitHead(usage, now, ttbKey)
         IN
         /\ started' = started + 1
         /\ breaker' = ClientBreaker
         /\ UNCHANGED <<scenario, probe, toolCall, isbnProbe, cacheLog, resetAt, now, ticks, ttbKey, httpCount,
                   fnCall>>
         /\ IF errors # <<>>
            THEN /\ Reject(rec, ValidationError(m, errors), "validation", usage)
                 /\ proc' = others
                 /\ cache' = ClientCache
                 /\ UNCHANGED rateLimitState
            ELSE IF got.found /\ DataTruthy(got.data)
            THEN /\ Resolve(rec, got.data, "cache")
                 /\ proc' = others
                 /\ cache' = got.cache
                 /\ UNCHANGED <<usage, globalUsageStats, rateLimitState>>
            ELSE /\ cache' = got.cache
                 /\ rateLimitState' = getRateLimitState(rateLimitState, now)
                 /\ IF head.err # NoError /\ IsList(m)
                    THEN /\ Reject(rec, head.err, "quota", head.usage)
                         /\ proc' = others
                    ELSE /\ usage' = head.usage
                         /\ UNCHANGED globalUsageStats
                         /\ last' = [last EXCEPT !.followed = TRUE]
                         /\ proc' = [others EXCEPT ![p] =
                                       [rec EXCEPT !.err = head.err, !.stage = "quota",
                                                   !.pc = IF head.err = NoError
                                                          THEN "rl_freq" ELSE "rejecting"]]

\* checkRateLimit resumes: checkRequestFrequency up to its await
FreqCheck(p) ==
    /\ proc[p].pc = "rl_freq"
    /\ LET u == getTtbKeyUsage(usage, now)
           f == checkRequestFrequency(rateLimitState, u, now)
       IN /\ rateLimitState' = f.state
          /\ IF f.err # NoError
             THEN Throw(p, proc[p], f.err, "frequency", u)
             ELSE /\ usage' = u
                  /\ UNCHANGED <<globalUsageStats, last>>
                  /\ proc' = [proc EXCEPT ![p] =
                                IF f.sleep > 0
                                THEN [@ EXCEPT !.pc = "rl_sleep", !.wakeAt = now + f.sleep]
                                ELSE [@ EXCEPT !.pc = "rl_burst"]]
    /\ UNCHANGED <<scenario, probe, toolCall, isbnProbe, cacheLog, resetAt, now, ticks, ttbKey, cache, breaker, started, httpCount,
                   fnCall>>

\* checkRateLimit resumes: checkBurstLimit
BurstCheck(p) ==
    /\ proc[p].pc = "rl_burst"
    /\ LET b == checkBurstLimit(rateLimitState, now) IN
          /\ rateLimitState' = b.state
          /\ IF b.err # NoError
             THEN Throw(p, proc[p], b.err, "burst", usage)
             ELSE /\ proc' = [proc EXCEPT ![p].pc = "cb_check"]
                  /\ UNCHANGED <<usage, globalUsageStats, last>>
    /\ UNCHANGED <<scenario, probe, toolCall, isbnProbe, cacheLog, resetAt, now, ticks, ttbKey, cache, breaker, started, httpCount,
                   fnCall>>

\* a breaker check whose error does not stop the call: the request is issued
\* whatever checkCircuitBreaker says
BreakerCheckIgnored(p) ==
    /\ proc[p].pc = "cb_check"
    /\ breaker' = checkCircuitBreaker(breaker, now).breaker
    /\ proc' = [proc EXCEPT ![p] =
                  [@ EXCEPT !.pc = "http", !.retries = MAX_RETRIES, !.nHttp = 1]]
    /\ httpCount' = httpCount + 1
    /\ UNCHANGED <<scenario, probe, toolCall, isbnProbe, cacheLog, resetAt, now, ticks, ttbKey,
                   cache, rateLimitState, started, usage, globalUsageStats, last, fnCall>>

\* the endpoint method resumes after checkApiRateLimit: checkCircuitBreaker,
\* then retryRequest issues the first HTTP request
BreakerCheck(p) ==
    /\ proc[p].pc = "cb_check"
    /\ LET c == checkCircuitBreaker(breaker, now) IN
          /\ breaker' = c.breaker
          /\ IF c.err # NoError
             THEN /\ Reject(proc[p], c.err, "breaker", usage)
                  /\ proc' = [proc EXCEPT ![p] = IdleProc]
                  /\ UNCHANGED httpCount
             ELSE /\ proc' = [proc EXCEPT ![p] =
                                [@ EXCEPT !.pc = "http", !.retries = MAX_RETRIES, !.nHttp = 1]]
                  /\ httpCount' = httpCount + 1
                  /\ UNCHANGED <<usage, globalUsageStats, last>>
    /\ UNCHANGED <<scenario, probe, toolCall, isbnProbe, cacheLog, resetAt, now, ticks, ttbKey, cache, rateLimitState, started,
                   fnCall>>

\* the catch block of searchBooks / getBookDetails runs for an error thrown
\* inside checkRateLimit
Catch(p) ==
    /\ proc[p].pc = "rejecting"
    /\ Reject(proc[p], proc[p].err, proc[p].stage, usage)
    /\ proc' = [proc EXCEPT ![p] = IdleProc]
    /\ UNCHANGED <<scenario, probe, toolCall, isbnProbe, cacheLog, resetAt, now, ticks, ttbKey, cache, breaker, rateLimitState, started, httpCount,
                   fnCall>>

\* a throttle delay after which the frequency check is made again
TimerFiresRecheck(p) ==
    /\ proc[p].pc \in {"rl_sleep", "retry_sleep"}
    /\ now >= proc[p].wakeAt
    /\ IF proc[p].pc = "rl_sleep"
       THEN /\ proc' = [proc EXCEPT ![p].pc = "rl_freq"]
            /\ UNCHANGED httpCount
       ELSE /\ proc' = [proc EXCEPT ![p] = [@ EXCEPT !.pc = "http", !.nHttp = @ + 1]]
            /\ httpCount' = httpCount + 1
    /\ UNCHANGED <<scenario, probe, toolCall, isbnProbe, cacheLog, resetAt, now, ticks, ttbKey, cache, breaker, usage, globalUsageStats,
                   rateLimitState, started, last, fnCall>>

\* a setTimeout fires, no earlier than its delay: the throttle delay of
\* checkRequestFrequency, or the backoff of retryRequest, which then issues
\* the next HTTP request
TimerFires(p) ==
    /\ proc[p].pc \in {"rl_sleep", "retry_sleep"}
    /\ now >= proc[p].wakeAt
    /\ IF proc[p].pc = "rl_sleep"
       THEN /\ proc' = [proc EXCEPT ![p].pc = "rl_burst"]
            /\ UNCHANGED httpCount
       ELSE /\ proc' = [proc EXCEPT ![p] = [@ EXCEPT !.pc = "http", !.nHttp = @ + 1]]
            /\ httpCount' = httpCount + 1
    /\ UNCHANGED <<scenario, probe, toolCall, isbnProbe, cacheLog, resetAt, now, ticks, ttbKey, cache, breaker, usage, globalUsageStats,
                   rateLimitState, started, last, fnCall>>

\* the answer to the HTTP request in flight arrives: the response
\* interceptor, the rest of retryRequest and the rest of the endpoint method
HttpResponse(p) ==
    /\ proc[p].pc = "http"
    /\ \E plan \in (IF proc[p].nHttp = 1 THEN Plans(scenario) ELSE {proc[p].plan}) :
       LET rec == [proc[p] EXCEPT !.plan = plan]
           m == rec.method
           answer == PlanAt(rec.plan, rec.nHttp)
           raw == AxiosError(answer.status, answer.ecode, answer.body.errorCode)
           error == ResponseInterceptorError(raw)
           attempt == MAX_RETRIES - rec.retries + 1
           data == ResponseData(m, answer.body)
       IN IF IsSuccess(answer) /\ NormalizeThrows(answer.body)
          THEN /\ breaker' = [breaker EXCEPT !.failures = 0]
               /\ UNCHANGED cache
               /\ Reject(rec, TypeError, "normalization", usage)
               /\ proc' = [proc EXCEPT ![p] = IdleProc]
          ELSE IF IsSuccess(answer)
          THEN /\ breaker' = [breaker EXCEPT !.failures = 0]
               /\ cache' = setCache(cache, rec.key, data, Ttl(m), now)
               /\ Resolve(rec, data, "success")
               /\ usage' = IF RecordsUsage(m) THEN recordApiCall(usage, now, TRUE) ELSE usage
               /\ globalUsageStats' =
                      IF RecordsUsage(m) THEN recordGlobal(globalUsageStats, now)
                      ELSE globalUsageStats
               /\ proc' = [proc EXCEPT ![p] = IdleProc]
          ELSE /\ breaker' = handleCircuitBreaker(breaker, now)
               /\ UNCHANGED cache
               /\ IF rec.retries > 0 /\ isRetryableError(error)
                  THEN /\ proc' = [proc EXCEPT ![p] =
                                     [rec EXCEPT !.pc = "retry_sleep",
                                               !.retries = @ - 1,
                                               !.wakeAt = now + RetryBaseDelay(attempt)]]
                       /\ UNCHANGED <<usage, globalUsageStats, last>>
                  ELSE /\ Reject(rec, error, "http", usage)
                       /\ proc' = [proc EXCEPT ![p] = IdleProc]
    /\ UNCHANGED <<scenario, probe, toolCall, isbnProbe, cacheLog, resetAt, now, ticks, ttbKey, rateLimitState, started, httpCount,
                   fnCall>>

\* clearCache()
ClearCache ==
    /\ cache # <<>>
    /\ cache' = <<>>
    /\ last' = [last EXCEPT !.cleared = TRUE]
    /\ UNCHANGED <<scenario, probe, toolCall, isbnProbe, cacheLog, resetAt, now, ticks, ttbKey, breaker, usage, globalUsageStats, rateLimitState,
                   proc, started, httpCount, fnCall>>

\* the moments at which the passing of time changes what the code does
Deadlines ==
    UNION {{cache[i].timestamp + cache[i].ttl - 1, cache[i].timestamp + cache[i].ttl,
            cache[i].timestamp + cache[i].ttl + 1} : i \in 1..Len(cache)}
    \cup (IF breaker.lastFailure # NoDate
          THEN {breaker.lastFailure + CIRCUIT_BREAKER_TIMEOUT - 1,
                breaker.lastFailure + CIRCUIT_BREAKER_TIMEOUT}
          ELSE {})
    \cup (IF rateLimitState.exists
          THEN {rateLimitState.lastBurstReset + BURST_WINDOW,
                rateLimitState.lastBurstReset + BURST_WINDOW + 1}
          ELSE {})
    \cup (IF rateLimitState.isBlocked
          THEN {rateLimitState.nextAllowedTime.ms, rateLimitState.nextAllowedTime.ms + 1}
          ELSE {})
    \cup UNION {{usage.requestHistory[i] + FREQUENCY_WINDOW,
                 usage.requestHistory[i] + FREQUENCY_WINDOW + 1} :
                   i \in 1..Len(usage.requestHistory)}
    \cup {proc[p].wakeAt : p \in {q \in Procs : proc[q].pc \in {"rl_sleep", "retry_sleep"}}}
    \cup {AddDays(NextMidnight(now), d - 1) : d \in 1..(DayNumber(MaxTimeOf(scenario)) - DayNumber(now))}

\* time passes, while every flow is idle or awaits a timer or an HTTP answer
\* (the other suspension points are promise continuations of the same tick)
Tick ==
    /\ \A p \in Procs : proc[p].pc \in {"idle", "rl_sleep", "retry_sleep", "http"}
    /\ ticks < TickBudget(scenario)
    /\ ticks' = ticks + 1
    /\ \E t \in Deadlines : t > now /\ t <= MaxTimeOf(scenario) /\ now' = t
    /\ UNCHANGED <<scenario, probe, toolCall, isbnProbe, cacheLog, resetAt, ttbKey, cache, breaker, usage, globalUsageStats, rateLimitState,
                   proc, started, httpCount, last, fnCall>>

\* the timer of setupDailyReset fires, no earlier than midnight: every key's
\* usage and the global count are reset and the next timer is set
DailyReset ==
    /\ \A p \in Procs : proc[p].pc \in {"idle", "rl_sleep", "retry_sleep", "http"}
    /\ now >= resetAt
    /\ usage' = IF usage.exists THEN resetDailyUsage(usage, now) ELSE usage
    /\ globalUsageStats' = [globalUsageStats EXCEPT !.dailyCount = 0]
    /\ resetAt' = NextMidnight(now)
    /\ UNCHANGED <<scenario, probe, toolCall, isbnProbe, cacheLog, now, ticks, ttbKey, cache, breaker, rateLimitState,
                   proc, started, httpCount, last, fnCall>>

Next ==
    \/ \E p \in Procs : Start(p)
    \/ \E p \in Procs : FreqCheck(p)
    \/ \E p \in Procs : BurstCheck(p)
    \/ \E p \in Procs : BreakerCheck(p)
    \/ \E p \in Procs : Catch(p)
    \/ \E p \in Procs : TimerFires(p)
    \/ \E p \in Procs : HttpResponse(p)
    \/ ClearCache
    \/ Tick

SpecRetry == InitRetry /\ [][Next]_vars

\* the delay of the earliest pending setTimeout elapses
TimerElapses ==
    /\ \A p \in Procs : proc[p].pc \in {"idle", "rl_sleep", "retry_sleep", "http"}
    /\ LET pending == {proc[p].wakeAt :
                          p \in {q \in Procs : /\ proc[q].pc \in {"rl_sleep", "retry_sleep"}
                                               /\ proc[q].wakeAt > now}}
       IN /\ pending # {}
          /\ now' = CHOOSE t \in pending : \A t2 \in pending : t <= t2
    /\ UNCHANGED <<scenario, probe, toolCall, isbnProbe, cacheLog, resetAt, ticks, ttbKey, cache, breaker, usage, globalUsageStats,
                   rateLimitState, proc, started, httpCount, last, fnCall>>

NextLive == Next \/ TimerElapses

\* The event loop runs every continuation that is ready, every timer fires
\* once its delay has elapsed, time passes, and every HTTP attempt is answered
\* or times out (HTTP_CONFIG.TIMEOUT). Nothing obliges the caller to start a
\* call or to clear the cache.
Fairness ==
    /\ \A p \in Procs : WF_vars(FreqCheck(p))
    /\ \A p \in Procs : WF_vars(BurstCheck(p))
    /\ \A p \in Procs : WF_vars(BreakerCheck(p))
    /\ \A p \in Procs : WF_vars(Catch(p))
    /\ \A p \in Procs : WF_vars(TimerFires(p))
    /\ \A p \in Procs : WF_vars(HttpResponse(p))
    /\ WF_vars(TimerElapses)

SpecLive == InitRetry /\ [][NextLive]_vars /\ Fairness

SpecCache == InitCache /\ [][Next]_vars

SpecInterleave == InitInterleave /\ [][Next]_vars

SpecValidation == InitValidation /\ [][Next]_vars

SpecBreaker == InitBreaker /\ [][Next]_vars

\* the steps of calls of the list methods, which have no catch block around
\* checkApiRateLimit
NextList ==
    \/ \E p \in Procs : Start(p)
    \/ \E p \in Procs : FreqCheck(p)
    \/ \E p \in Procs : BurstCheck(p)
    \/ \E p \in Procs : BreakerCheck(p)
    \/ \E p \in Procs : TimerFires(p)
    \/ \E p \in Procs : HttpResponse(p)
    \/ ClearCache
    \/ Tick

SpecBurst == InitBurst /\ [][NextList]_vars

SpecTools == InitTools /\ [][Next]_vars

\* over days the timer of setupDailyReset takes part
NextQuota == Next \/ DailyReset

SpecQuota == InitQuota /\ [][NextQuota]_vars

\* ------------------------------------------------------------------------
\* createCacheKey as a function of its arguments: two parameter objects for
\* one endpoint, of at most MaxProbeFields members each
\* ------------------------------------------------------------------------
ProbeValues(name) ==
    CASE name = "Query" -> {Str(<<"a">>), Str(<<"b">>)}
      [] name = "MaxResults" -> {Num(10), Undef}
      [] OTHER -> {Num(1), Num(2)}

ProbeMembers ==
    UNION {{M(k, v) : v \in ProbeValues(k)} : k \in {"Query", "MaxResults", "Start"}}

\* the object literals over ProbeMembers: no name occurs twice
ProbeObjects ==
    {o \in UNION {[1..n -> ProbeMembers] : n \in 0..MaxProbeFields} :
        \A i, j \in 1..Len(o) : o[i].k = o[j].k => i = j}

InitKey ==
    /\ scenario = "key"
    /\ ttbKey = ValidKey
    /\ toolCall = NoToolCall
    /\ isbnProbe = NoIsbnProbe
    /\ cacheLog = NoCacheLog
    /\ fnCall = NoFnCall
    /\ usage = NoUsage
    /\ globalUsageStats = [dailyCount |-> 0, lastCall |-> TStart]
    /\ resetAt = NextMidnight(TStart)
    /\ FreshClient
    /\ \E e \in {"search", "bestseller"}, o1, o2 \in ProbeObjects :
         probe = [NoProbe EXCEPT !.stage = "in", !.endpoint = e, !.p1 = o1, !.p2 = o2]

MakeKeys ==
    /\ probe.stage = "in"
    /\ probe' = [probe EXCEPT !.stage = "out",
                              !.k1 = createCacheKey(probe.endpoint, probe.p1),
                              !.k2 = createCacheKey(probe.endpoint, probe.p2)]
    /\ UNCHANGED <<scenario, now, ticks, ttbKey, cache, breaker, usage, globalUsageStats,
                   rateLimitState, proc, started, httpCount, last, resetAt, toolCall,
                   isbnProbe, cacheLog, fnCall>>

NextKey == MakeKeys

SpecKey == InitKey /\ [][NextKey]_vars

\* ------------------------------------------------------------------------
\* The ISBN validators of the tool layer (validators, part_001) next to the
\* ISBN validation of the client.  A validator returns its errors; isValid
\* is errors = <<>>.
\* ------------------------------------------------------------------------
MaxIsbnEdits == 1

RECURSIVE SumTo(_, _)
\* the for loop that adds f[1] .. f[n]
SumTo(f, n) == IF n = 0 THEN 0 ELSE f[n] + SumTo(f, n - 1)

\* String(n) for one digit
DigitChar(n) == CHOOSE c \in Digits : DigitValue(c) = n

\* validateIsbn10 without its checksum test
validateIsbn10PatternOnly(isbn) ==
    IF ~Truthy(isbn) \/ isbn.t # "string" THEN <<"ISBN10_STRING">>
    ELSE IF ~ISBN_10_PATTERN(isbn.s) THEN <<"ISBN10_FORMAT">>
    ELSE <<>>

validateIsbn10(isbn) ==
    IF ~Truthy(isbn) \/ isbn.t # "string" THEN <<"ISBN10_STRING">>
    ELSE IF ~ISBN_10_PATTERN(isbn.s) THEN <<"ISBN10_FORMAT">>
    ELSE LET sum == SumTo([i \in 1..9 |-> DigitValue(isbn.s[i]) * (11 - i)], 9)
             remainder == sum % 11
             expectedCheckDigit ==
                 IF remainder = 0 THEN "0"
                 ELSE IF remainder = 1 THEN "X"
                 ELSE DigitChar(11 - remainder)
         IN IF isbn.s[10] # expectedCheckDigit THEN <<"ISBN10_CHECKSUM">> ELSE <<>>

\* validateIsbn13 without its checksum test
validateIsbn13PatternOnly(isbn) ==
    IF ~Truthy(isbn) \/ isbn.t # "string" THEN <<"ISBN13_STRING">>
    ELSE IF ~ISBN_13_PATTERN(isbn.s) THEN <<"ISBN13_FORMAT">>
    ELSE <<>>

validateIsbn13(isbn) ==
    IF ~Truthy(isbn) \/ isbn.t # "string" THEN <<"ISBN13_STRING">>
    ELSE IF ~ISBN_13_PATTERN(isbn.s) THEN <<"ISBN13_FORMAT">>
    ELSE LET sum == SumTo([i \in 1..12 |->
                             DigitValue(isbn.s[i]) * (IF (i - 1) % 2 = 0 THEN 1 ELSE 3)], 12)
             checkDigit == (10 - (sum % 10)) % 10
         IN IF DigitValue(isbn.s[13]) # checkDigit THEN <<"ISBN13_CHECKSUM">> ELSE <<>>

\* validateIsbn of the validators: hyphens removed, then by length
validators_validateIsbn(isbn) ==
    IF ~Truthy(isbn) \/ isbn.t # "string" THEN <<"ISBN_STRING">>
    ELSE LET cleanIsbn == Str(SelectSeq(isbn.s, LAMBDA c : c # "-")) IN
         IF Len(cleanIsbn.s) = 10 THEN validateIsbn10(cleanIsbn)
         ELSE IF Len(cleanIsbn.s) = 13 THEN validateIsbn13(cleanIsbn)
         ELSE <<"ISBN_LENGTH">>

\* the strings the validators are applied to: ISBNs with a right and with a
\* wrong check digit, with hyphens, and what up to MaxIsbnEdits replaced,
\* removed or inserted characters make of them
IsbnSamples ==
    {<<"0", "7", "4", "7", "5", "3", "2", "6", "9", "9">>,
     <<"0", "7", "4", "7", "5", "3", "2", "6", "9", "8">>,
     <<"0", "8", "0", "4", "4", "2", "9", "5", "7", "X">>,
     <<"0", "3", "0", "6", "4", "0", "6", "1", "5", "2">>,
     <<"0", "0", "0", "0", "0", "0", "0", "0", "0", "0">>,
     <<"0", "-", "7", "4", "7", "5", "-", "3", "2", "6", "9", "-", "9">>,
     ValidIsbn13,
     <<"9", "7", "8", "0", "7", "4", "7", "5", "3", "2", "6", "9", "0">>,
     <<"9", "7", "8", "-", "0", "7", "4", "7", "5", "3", "2", "6", "9", "9">>}

IsbnChars == Digits \cup {"X", "x", "-"}

\* the strings one edit away from s
IsbnEdits(s) ==
    {[s EXCEPT ![i] = c] : i \in 1..Len(s), c \in IsbnChars}
    \cup {SubSeq(s, 1, i - 1) \o SubSeq(s, i + 1, Len(s)) : i \in 1..Len(s)}
    \cup {SubSeq(s, 1, i) \o <<c>> \o SubSeq(s, i + 1, Len(s)) : i \in 0..Len(s), c \in IsbnChars}

RECURSIVE IsbnStrings(_)
IsbnStrings(n) ==
    IF n = 0 THEN IsbnSamples
    ELSE LET S == IsbnStrings(n - 1) IN S \cup UNION {IsbnEdits(s) : s \in S}

IsbnInputs == {Undef, Num(7), Str(<<>>)} \cup {Str(s) : s \in IsbnStrings(MaxIsbnEdits)}

InitIsbn ==
    /\ scenario = "isbn"
    /\ ttbKey = ValidKey
    /\ usage = NoUsage
    /\ globalUsageStats = [dailyCount |-> 0, lastCall |-> TStart]
    /\ resetAt = NextMidnight(TStart)
    /\ FreshClient
    /\ probe = NoProbe
    /\ toolCall = NoToolCall
    /\ cacheLog = NoCacheLog
    /\ fnCall = NoFnCall
    /\ \E v \in IsbnInputs : isbnProbe = [NoIsbnProbe EXCEPT !.stage = "in", !.input = v]

\* the validators of the tool layer and getBookDetails's validation of
\* {ISBN: input} and of {ISBN13: input} are applied to the input
ValidateIsbns ==
    /\ isbnProbe.stage = "in"
    /\ isbnProbe' =
           [isbnProbe EXCEPT
              !.stage = "out",
              !.isbn10 = validateIsbn10(isbnProbe.input),
              !.isbn13 = validateIsbn13(isbnProbe.input),
              !.isbn = validators_validateIsbn(isbnProbe.input),
              !.lookupIsbn = validateLookupParams(<<M("ISBN", isbnProbe.input)>>),
              !.lookupIsbn13 = validateLookupParams(<<M("ISBN13", isbnProbe.input)>>)]
    /\ UNCHANGED <<scenario, now, ticks, ttbKey, cache, breaker, usage, globalUsageStats,
                   rateLimitState, proc, started, httpCount, last, resetAt, probe, toolCall,
                   cacheLog, fnCall>>

SpecIsbn == InitIsbn /\ [][ValidateIsbns]_vars

\* ------------------------------------------------------------------------
\* The cache of a client that has cached MAX_CACHE_SIZE searches, or all but
\* one: setCache and getFromCache applied to it, with the insertions into
\* the Map numbered as they happen.
\* ------------------------------------------------------------------------
MaxEvictOps == 3
MaxStale == 2

\* the key of the search for page i
EvictKey(q, i) == createCacheKey("search", <<M("Query", Str(<<q>>)), M("Start", Num(i))>>)

\* keys in the cache from the start and keys that are not
EvictKeys == {EvictKey("a", 1), EvictKey("a", 2), EvictKey("b", 1), EvictKey("b", 2)}

\* the cache after n searches, the first stale of them made more than
\* SEARCH_TTL ago
FilledCache(n, stale) ==
    [i \in 1..n |->
        [key |-> EvictKey("a", i), data |-> ResponseData("search", OK_EMPTY.body),
         timestamp |-> IF i <= stale THEN TStart - SEARCH_TTL - 1 ELSE TStart,
         ttl |-> SEARCH_TTL]]

InitEvict ==
    /\ scenario = "evict"
    /\ ttbKey = ValidKey
    /\ usage = NoUsage
    /\ globalUsageStats = [dailyCount |-> 0, lastCall |-> TStart]
    /\ resetAt = NextMidnight(TStart)
    /\ now = TStart
    /\ ticks = 0
    /\ breaker = [failures |-> 0, lastFailure |-> NoDate]
    /\ rateLimitState = NoRateLimitState
    /\ proc = [p \in Procs |-> IdleProc]
    /\ started = 0
    /\ httpCount = 0
    /\ last = NoCall
    /\ probe = NoProbe
    /\ toolCall = NoToolCall
    /\ isbnProbe = NoIsbnProbe
    /\ fnCall = NoFnCall
    /\ \E n \in {MAX_CACHE_SIZE - 1, MAX_CACHE_SIZE}, stale \in 0..MaxStale :
          /\ cache = FilledCache(n, stale)
          /\ cacheLog = [NoCacheLog EXCEPT
                            !.inserted = {[at |-> i, key |-> EvictKey("a", i)] : i \in 1..n}]

\* the key the Map has held longest
EarliestInserted(inserted) ==
    CHOOSE r \in inserted : \A r2 \in inserted : r.at <= r2.at

\* Map.delete(oldest) on a full Map, then Map.set(key), on the insertion log
LogSet(log, key) ==
    LET kept == IF Cardinality(log.inserted) >= MAX_CACHE_SIZE
                THEN log.inserted \ {EarliestInserted(log.inserted)}
                ELSE log.inserted
    IN [ops |-> log.ops + 1, op |-> "set", key |-> key,
        found |-> \E r \in log.inserted : r.key = key,
        inserted |-> IF \E r \in kept : r.key = key THEN kept
                     ELSE kept \cup {[at |-> MAX_CACHE_SIZE + log.ops + 1, key |-> key]}]

\* Map.get(key), and Map.delete(key) when getFromCache removed the entry
LogGet(log, key, found, deleted) ==
    [ops |-> log.ops + 1, op |-> "get", key |-> key, found |-> found,
     inserted |-> IF deleted THEN {r \in log.inserted : r.key # key} ELSE log.inserted]

EvictFrame ==
    UNCHANGED <<scenario, now, ticks, ttbKey, breaker, usage, globalUsageStats,
                rateLimitState, proc, started, httpCount, last, resetAt, probe, toolCall,
                isbnProbe, fnCall>>

\* setCache(key, data, SEARCH_TTL)
EvictSet ==
    /\ scenario = "evict"
    /\ cacheLog.ops < MaxEvictOps
    /\ \E key \in EvictKeys :
          /\ cache' = setCache(cache, key, ResponseData("search", OK_ITEMS.body), SEARCH_TTL, now)
          /\ cacheLog' = LogSet(cacheLog, key)
    /\ EvictFrame

\* getFromCache(key)
EvictGet ==
    /\ scenario = "evict"
    /\ cacheLog.ops < MaxEvictOps
    /\ \E key \in EvictKeys :
          LET got == getFromCache(cache, key, now) IN
          /\ cache' = got.cache
          /\ cacheLog' = LogGet(cacheLog, key, got.found,
                                CacheHas(cache, key) /\ ~CacheHas(got.cache, key))
    /\ EvictFrame

NextEvict == EvictSet \/ EvictGet

SpecEvict == InitEvict /\ [][NextEvict]_vars

\* clearCache()
EvictClear ==
    /\ scenario = "evict"
    /\ cacheLog.ops < MaxEvictOps
    /\ cache' = <<>>
    /\ cacheLog' = [ops |-> cacheLog.ops + 1, op |-> "clear", key |-> cacheLog.key,
                    found |-> FALSE, inserted |-> {}]
    /\ EvictFrame

NextCacheOps == EvictSet \/ EvictGet \/ EvictClear

SpecCacheOps == InitEvict /\ [][NextCacheOps]_vars

\* ------------------------------------------------------------------------
\* Functions applied to one argument: the error classifier
\* (utils/error-handler.ts), the composite input validators (validators,
\* part_001), normalizeBookItem and the request interceptor (client.ts)
\* ------------------------------------------------------------------------
\* a function is called with one of args
InitFnCall(fn, args) ==
    /\ scenario = fn
    /\ ttbKey = ValidKey
    /\ usage = NoUsage
    /\ globalUsageStats = [dailyCount |-> 0, lastCall |-> TStart]
    /\ resetAt = NextMidnight(TStart)
    /\ FreshClient
    /\ probe = NoProbe
    /\ toolCall = NoToolCall
    /\ isbnProbe = NoIsbnProbe
    /\ cacheLog = NoCacheLog
    /\ \E arg \in args : fnCall = [stage |-> "called", fn |-> fn, arg |-> arg, result |-> Undef]

\* the call of fn that has not returned yet
Called(fn) == fnCall.stage = "called" /\ fnCall.fn = fn

\* the call after it returned result
Returned(result) == [fnCall EXCEPT !.stage = "returned", !.result = result]

\* what a function without side effects on the client leaves alone
FnFrame ==
    UNCHANGED <<scenario, now, ticks, ttbKey, cache, breaker, usage, globalUsageStats,
                rateLimitState, proc, started, httpCount, last, resetAt, probe, toolCall,
                isbnProbe, cacheLog>>

\* ALADIN_ERROR_DETAILS[code].isRetryable
ALADIN_ERROR_RETRYABLE == {SYSTEM_ERROR}

\* AladinErrorHandler.isRetryableError
errorHandler_isRetryableError(error) ==
    IF error.code \in ALADIN_ERROR_CODES
    THEN error.code \in ALADIN_ERROR_RETRYABLE
    ELSE error.code = SYSTEM_ERROR

\* HTTP_STATUS_ERROR_MAPPING[status].isRetryable
HttpStatusRetryable(status) == status \in {429, 500, 502, 503, 504}

\* the status codes of HTTP answers that are errors
HttpErrorStatuses == (100..199) \cup (300..599)

InitStatus == InitFnCall("handleHttpStatusError", HttpErrorStatuses)

\* handleHttpStatusError(status), then isRetryableError on what it returned
ClassifyStatus ==
    /\ Called("handleHttpStatusError")
    /\ LET error == handleHttpStatusError(fnCall.arg) IN
       fnCall' = Returned([error |-> error,
                           isRetryable |-> errorHandler_isRetryableError(error)])
    /\ FnFrame

SpecStatus == InitStatus /\ [][ClassifyStatus]_vars

\* what handleAladinApiError writes to the logger: a warning for a code
\* without an entry in ALADIN_ERROR_DETAILS, else the structured error
handleAladinApiErrorLog(errorCode) ==
    IF errorCode \in ALADIN_ERROR_CODES THEN <<"logStructuredError">> ELSE <<"warn">>

\* the values of apiError.errorCode
UpstreamErrorCodes == (-1)..999

InitApiError == InitFnCall("handleAladinApiError", UpstreamErrorCodes)

\* handleAladinApiError(apiError)
ClassifyApiError ==
    /\ Called("handleAladinApiError")
    /\ fnCall' = Returned([error |-> handleAladinApiError(fnCall.arg),
                           log |-> handleAladinApiErrorLog(fnCall.arg)])
    /\ FnFrame

SpecApiError == InitApiError /\ [][ClassifyApiError]_vars

\* ------------------------------------------------------------------------
\* The request interceptor of the client's axios instance, and setTtbKey
\* ------------------------------------------------------------------------
API_VERSION == <<"2", "0", "0", "7", "0", "9", "0", "1">>
DEFAULT_OUTPUT_FORMAT == <<"J", "S">>

\* AladinApiClient.validateTtbKey: isValid
client_validateTtbKey(key) == key # <<>> /\ TTB_KEY_PATTERN(key)

\* params[name] = value
SetParam(params, name, value) ==
    IF Has(params, name)
    THEN [i \in 1..Len(params) |-> IF params[i].k = name THEN M(name, value) ELSE params[i]]
    ELSE Append(params, M(name, value))

\* an interceptor that leaves the members the caller supplied as they are
requestInterceptorDefaults(config, key) ==
    LET fill(p, name, value) == IF Has(p, name) THEN p ELSE SetParam(p, name, value)
    IN fill(fill(fill(IF config.hasParams THEN config.params ELSE <<>>,
                      "TTBKey", Str(key)), "Version", Str(API_VERSION)),
            "Output", Str(DEFAULT_OUTPUT_FORMAT))

\* the request interceptor: config.params of the request that is sent
requestInterceptor(config, key) ==
    SetParam(SetParam(SetParam(IF config.hasParams THEN config.params ELSE <<>>,
                               "TTBKey", Str(key)), "Version", Str(API_VERSION)),
             "Output", Str(DEFAULT_OUTPUT_FORMAT))

OtherKey == <<"t", "t", "b", "k", ".", "2">>

\* the object literal with the members that are not undefined
Params(members) == SelectSeq(members, LAMBDA m : m.v # Undef)

\* the params of a request: with or without a query, and with or without
\* members named like the common parameters
CallerParams ==
    {Params(<<M("Query", q), M("TTBKey", k), M("Version", v), M("Output", o)>>) :
        q \in {Undef, Str(<<"a">>)},
        k \in {Undef, Str(OtherKey), Str(TestKey), Str(<<>>)},
        v \in {Undef, Str(API_VERSION), Str(<<"2", "0", "1", "3", "1", "1", "0", "1">>)},
        o \in {Undef, Str(DEFAULT_OUTPUT_FORMAT), Str(<<"X", "M", "L">>)}}

\* the config of a request, with params or without
RequestConfigs ==
    {[hasParams |-> TRUE, params |-> params] : params \in CallerParams}
        \cup {[hasParams |-> FALSE, params |-> <<>>]}

\* a client constructed with some key is about to send a request
InitRequest ==
    /\ scenario = "request"
    /\ ttbKey \in TtbKeys
    /\ usage = NoUsage
    /\ globalUsageStats = [dailyCount |-> 0, lastCall |-> TStart]
    /\ resetAt = NextMidnight(TStart)
    /\ FreshClient
    /\ probe = NoProbe
    /\ toolCall = NoToolCall
    /\ isbnProbe = NoIsbnProbe
    /\ cacheLog = NoCacheLog
    /\ \E config \in RequestConfigs :
          fnCall = [stage |-> "called", fn |-> "request", arg |-> config, result |-> Undef]

\* setTtbKey(key) before the request is sent: a key that validateTtbKey
\* refuses throws and leaves the client's key as it was
SetTtbKey ==
    /\ Called("request")
    /\ \E key \in {ValidKey, OtherKey, TestKey, <<>>} :
          ttbKey' = IF client_validateTtbKey(key) THEN key ELSE ttbKey
    /\ UNCHANGED <<scenario, now, ticks, cache, breaker, usage, globalUsageStats,
                   rateLimitState, proc, started, httpCount, last, resetAt, probe, toolCall,
                   isbnProbe, cacheLog, fnCall>>

\* the request passes the interceptor and is sent
SendRequest ==
    /\ Called("request")
    /\ fnCall' = Returned([params |-> requestInterceptor(fnCall.arg, ttbKey)])
    /\ FnFrame

NextRequest == SetTtbKey \/ SendRequest

SpecRequest == InitRequest /\ [][NextRequest]_vars

\* ------------------------------------------------------------------------
\* normalizeBookItem applied to the items of an upstream answer
\* ------------------------------------------------------------------------
\* what the upstream sends for a field that holds an integer: nothing, a
\* number, a string of digits, a string that is no number
IntegerSent == {Undef, Num(0), Num(15), Str(<<"1", "5">>), Str(<<"0", "7">>),
                Str(<<"n", "a">>), Str(<<>>)}

\* for customerReviewRank
RankSent == {Undef, Num(9), Str(<<"9">>), Str(<<"8", ".", "5">>)}

\* for a text field
TextSent == {Undef, Str(<<"T">>), Str(<<>>)}

\* the object with the members whose value is not undefined
ObjectOf(members) ==
    [field \in {f \in DOMAIN members : members[f] # Undef} |-> members[field]]

\* items with one integer field, customerReviewRank, one text field and a
\* field normalizeBookItem does not name
UpstreamItems ==
    {ObjectOf([k \in {nf, "customerReviewRank", tf, "subInfo"} |->
                 CASE k = nf -> nv [] k = "customerReviewRank" -> fv [] k = tf -> tv
                   [] OTHER -> sv]) :
        nf \in PARSE_INT_FIELDS, nv \in IntegerSent, fv \in RankSent,
        tf \in {"title", "author", "link"}, tv \in TextSent,
        sv \in {Undef, Str(<<"s">>)}}

InitNormalize == InitFnCall("normalizeBookItem", UpstreamItems)

\* normalizeBookItem(item)
NormalizeItem ==
    /\ Called("normalizeBookItem")
    /\ fnCall' = Returned(normalizeBookItem(fnCall.arg))
    /\ FnFrame

SpecNormalize == InitNormalize /\ [][NormalizeItem]_vars

\* ------------------------------------------------------------------------
\* The validators of the tool inputs (part_001): every one returns the
\* messages of its errors, none when the value is valid
\* ------------------------------------------------------------------------
\* an array value
Arr(s) == [t |-> "array", n |-> 0, s |-> s]

\* a value that passes if (value): arrays are truthy
JsTruthy(v) == Truthy(v) \/ v.t = "array"

SEARCH_TARGETS == {"Book", "Foreign", "eBook", "Music", "DVD"}
QUERY_TYPES == {"Title", "Author", "Publisher", "Keyword"}
SORT_OPTIONS == {"Accuracy", "PublishTime", "Title", "SalesPoint", "CustomerRating"}
COVER_SIZES == {"None", "Small", "MidBig", "Big"}
OPT_RESULTS == {"authors", "fulldescription", "Toc", "Story", "categoryIdList"}

\* String.prototype.trim on a sequence of characters
RECURSIVE TrimStart(_)
TrimStart(s) == IF s # <<>> /\ Head(s) = " " THEN TrimStart(Tail(s)) ELSE s

RECURSIVE TrimEnd(_)
TrimEnd(s) ==
    IF s # <<>> /\ s[Len(s)] = " " THEN TrimEnd(SubSeq(s, 1, Len(s) - 1)) ELSE s

Trim(s) == TrimEnd(TrimStart(s))

validateQuery(query) ==
    IF ~Truthy(query) \/ query.t # "string" THEN <<"QUERY_STRING">>
    ELSE IF Len(Trim(query.s)) < MIN_QUERY_LENGTH THEN <<"QUERY_MIN">>
    ELSE IF Len(query.s) > MAX_QUERY_LENGTH THEN <<"QUERY_MAX">>
    ELSE <<>>

\* validateSearchTarget, validateQueryType, validateSortOption,
\* validateCoverSize: a string that is a key of the table; the value is one
\* word, and no word is the name of a member of Object.prototype
validateKeyOf(value, keys, name) ==
    IF ~Truthy(value) \/ value.t # "string" THEN <<name, "STRING">>
    ELSE IF ~(Len(value.s) = 1 /\ value.s[1] \in keys) THEN <<name, "UNSUPPORTED">>
    ELSE <<>>

validateSearchTarget(searchTarget) == validateKeyOf(searchTarget, SEARCH_TARGETS, "searchTarget")
validateQueryType(queryType) == validateKeyOf(queryType, QUERY_TYPES, "queryType")
validateSortOption(sortOption) == validateKeyOf(sortOption, SORT_OPTIONS, "sort")
validateCoverSize(coverSize) == validateKeyOf(coverSize, COVER_SIZES, "cover")

validateOptResults(optResults) ==
    IF optResults.t # "array" THEN <<"optResult", "ARRAY">>
    ELSE LET unsupported == SelectSeq(optResults.s, LAMBDA o : o \notin OPT_RESULTS)
         IN [i \in 1..(2 * Len(unsupported)) |->
                IF i % 2 = 1 THEN "optResult" ELSE "UNSUPPORTED"]

\* validateCategoryId, validateStart, validateMaxResults, validateYear,
\* validateMonth, validateWeek: an integer number within [min, max]
validateIntegerIn(value, min, max, name) ==
    IF value.t # "number" THEN <<name, "NUMBER">>
    ELSE IF value.n < min \/ value.n > max THEN <<name, "RANGE">>
    ELSE <<>>

validateCategoryId(categoryId) ==
    validateIntegerIn(categoryId, MIN_CATEGORY_ID, MAX_CATEGORY_ID, "categoryId")
validateStart(start) == validateIntegerIn(start, MIN_START, MAX_START, "start")
validateMaxResults(maxResults) ==
    validateIntegerIn(maxResults, MIN_MAX_RESULTS, MAX_MAX_RESULTS, "maxResults")
validateYear(year) == validateIntegerIn(year, MIN_YEAR, MAX_YEAR, "year")
validateMonth(month) == validateIntegerIn(month, MIN_MONTH, MAX_MONTH, "month")
validateWeek(week) == validateIntegerIn(week, MIN_WEEK, MAX_WEEK, "week")

validateItemId(itemId) ==
    IF ~Truthy(itemId) \/ itemId.t # "string" THEN <<"itemId", "STRING">>
    ELSE IF \E i \in 1..Len(itemId.s) : itemId.s[i] \notin Digits THEN <<"itemId", "DIGITS">>
    ELSE IF Len(itemId.s) < 1 \/ Len(itemId.s) > 20 THEN <<"itemId", "LENGTH">>
    ELSE <<>>

\* if (guard) { errors.push(...result.errors) }
PushIf(guard, errors) == IF guard THEN errors ELSE <<>>

\* what a validator returns, or the TypeError of input.<field> on an input
\* that is undefined
ValidationResult(errors) == [threw |-> FALSE, isValid |-> errors = <<>>, errors |-> errors]
ValidationThrew == [threw |-> TRUE, isValid |-> FALSE, errors |-> <<>>]

validateAladinSearchInput(input) ==
    IF input = Undef THEN ValidationThrew
    ELSE ValidationResult(
            validateQuery(input.query)
         \o PushIf(JsTruthy(input.queryType), validateQueryType(input.queryType))
         \o PushIf(JsTruthy(input.searchTarget), validateSearchTarget(input.searchTarget))
         \o PushIf(JsTruthy(input.sort), validateSortOption(input.sort))
         \o PushIf(JsTruthy(input.cover), validateCoverSize(input.cover))
         \o PushIf(input.categoryId # Undef, validateCategoryId(input.categoryId))
         \o PushIf(input.start # Undef, validateStart(input.start))
         \o PushIf(input.maxResults # Undef, validateMaxResults(input.maxResults))
         \o PushIf(JsTruthy(input.optResult), validateOptResults(input.optResult)))

validateAladinBookInfoInput(input) ==
    IF input = Undef THEN ValidationThrew
    ELSE IF ~JsTruthy(input.itemId) /\ ~JsTruthy(input.isbn) /\ ~JsTruthy(input.isbn13)
    THEN ValidationResult(<<"identifier", "REQUIRED">>)
    ELSE ValidationResult(
            PushIf(JsTruthy(input.itemId), validateItemId(input.itemId))
         \o PushIf(JsTruthy(input.isbn), validators_validateIsbn(input.isbn))
         \o PushIf(JsTruthy(input.isbn13), validateIsbn13(input.isbn13))
         \o PushIf(JsTruthy(input.cover), validateCoverSize(input.cover))
         \o PushIf(JsTruthy(input.optResult), validateOptResults(input.optResult)))

validateAladinBestsellersInput(input) ==
    IF input = Undef THEN ValidationThrew
    ELSE ValidationResult(
            PushIf(input.categoryId # Undef, validateCategoryId(input.categoryId))
         \o PushIf(JsTruthy(input.searchTarget), validateSearchTarget(input.searchTarget))
         \o PushIf(input.year # Undef, validateYear(input.year))
         \o PushIf(input.month # Undef, validateMonth(input.month))
         \o PushIf(input.week # Undef, validateWeek(input.week))
         \o PushIf(input.start # Undef, validateStart(input.start))
         \o PushIf(input.maxResults # Undef, validateMaxResults(input.maxResults))
         \o PushIf(JsTruthy(input.cover), validateCoverSize(input.cover)))

\* the values of a field: absent, valid, invalid; a cover may also be ""
KeyValues(valid) == {Undef, Str(<<valid>>), Str(<<"Other">>)}
CoverValues == KeyValues("Big") \cup {Str(<<>>)}
IntegerValues(valid, invalid) == {Undef, Num(valid), Num(invalid)}
OptResultValues == {Undef, Arr(<<"authors">>), Arr(<<"authors", "reviews">>)}

SearchInputs ==
    [query : {Undef, Str(<<"a">>), Str(<<" ">>)},
     queryType : KeyValues("Title"), searchTarget : KeyValues("Book"),
     sort : KeyValues("Accuracy"), cover : CoverValues,
     categoryId : IntegerValues(0, -1), start : IntegerValues(1, 0),
     maxResults : IntegerValues(10, 51), optResult : OptResultValues]

BookInfoInputs ==
    [itemId : {Undef, Str(<<"1", "2">>), Str(<<"x">>)},
     isbn : {Undef, Str(<<"0", "7", "4", "7", "5", "3", "2", "6", "9", "9">>),
             Str(<<"0", "7", "4", "7", "5", "3", "2", "6", "9", "8">>)},
     isbn13 : {Undef, Str(ValidIsbn13), Str(<<"9", "7", "8">>)},
     cover : CoverValues, optResult : OptResultValues]

BestsellersInputs ==
    [categoryId : IntegerValues(0, -1), searchTarget : KeyValues("Book"),
     year : IntegerValues(CurrentYear, MIN_YEAR - 1), month : IntegerValues(1, 13),
     week : IntegerValues(1, 6), start : IntegerValues(1, 0),
     maxResults : IntegerValues(10, 51), cover : CoverValues]

InitComposite ==
    \/ InitFnCall("validateAladinSearchInput", SearchInputs \cup {Undef})
    \/ InitFnCall("validateAladinBookInfoInput", BookInfoInputs \cup {Undef})
    \/ InitFnCall("validateAladinBestsellersInput", BestsellersInputs \cup {Undef})

ValidateSearchInput ==
    /\ Called("validateAladinSearchInput")
    /\ fnCall' = Returned(validateAladinSearchInput(fnCall.arg))
    /\ FnFrame

ValidateBookInfoInput ==
    /\ Called("validateAladinBookInfoInput")
    /\ fnCall' = Returned(validateAladinBookInfoInput(fnCall.arg))
    /\ FnFrame

ValidateBestsellersInput ==
    /\ Called("validateAladinBestsellersInput")
    /\ fnCall' = Returned(validateAladinBestsellersInput(fnCall.arg))
    /\ FnFrame

NextComposite == ValidateSearchInput \/ ValidateBookInfoInput \/ ValidateBestsellersInput

SpecComposite == InitComposite /\ [][NextComposite]_vars

\* ------------------------------------------------------------------------
\* The tool-call boundary: the CallToolRequestSchema handler of the server and
\* the tool handlers.  A result is what JSON.stringify writes into the text
\* content: envelope tells whether it is an object with a boolean success
\* property, errorCode is error.code (0 without error), data tells whether it
\* has a data property.
\* ------------------------------------------------------------------------
MaxBoundaryCalls == 2

\* the own properties of TOOL_HANDLERS
RegisteredTools ==
    {"aladin_search", "aladin_book_info", "aladin_bestsellers", "aladin_new_books",
     "aladin_item_list", "aladin_categories"}

\* properties TOOL_HANDLERS, an object literal, inherits from Object.prototype
InheritedNames == {"toString", "constructor", "valueOf", "hasOwnProperty", "__proto__"}

\* some names that TOOL_HANDLERS does not have
UnknownNames == {"no_such_tool", ""}

\* request.params.arguments: absent, an object the validation of the tool
\* rejects, an object it accepts
ToolArguments == {"undefined", "invalid", "valid"}

\* handlers that read a property of their input before their try block
ReadsInputBeforeTry == {"aladin_book_info", "aladin_bestsellers", "aladin_new_books"}

formatMcpSuccessResponse ==
    [envelope |-> TRUE, success |-> TRUE, errorCode |-> 0, data |-> TRUE]

formatMcpErrorResponse(code) ==
    [envelope |-> TRUE, success |-> FALSE, errorCode |-> code, data |-> FALSE]

\* a value that is not a response object: a string, or the arguments object
NotAnEnvelope == [envelope |-> FALSE, success |-> FALSE, errorCode |-> 0, data |-> FALSE]

\* what the body of a tool handler does with its input: it returns data, it
\* finds the input invalid, an error with this code (0: an exception without
\* a code) is thrown inside its try block, or an exception escapes it
HandlerOutcomes(name, args) ==
    CASE args = "valid" ->
           {[kind |-> "data", code |-> 0]}
               \cup {[kind |-> "error", code |-> c] : c \in ALADIN_ERROR_CODES \cup {0}}
      [] args = "invalid" -> {[kind |-> "invalid", code |-> 0]}
      [] OTHER ->
           IF name \in ReadsInputBeforeTry THEN {[kind |-> "escapes", code |-> 0]}
           ELSE {[kind |-> "invalid", code |-> 0], [kind |-> "error", code |-> 0]}

\* the value a tool handler resolves with
HandlerResult(o) ==
    CASE o.kind = "data" -> formatMcpSuccessResponse
      [] o.kind = "invalid" -> formatMcpErrorResponse(INVALID_PARAM_VALUE)
      [] OTHER -> formatMcpErrorResponse(IF o.code # 0 THEN o.code ELSE SYSTEM_ERROR)

\* TOOL_HANDLERS[name]
LookupHandler(name) ==
    IF name \in RegisteredTools THEN "handler"
    ELSE IF name \in InheritedNames THEN name
    ELSE "undefined"

\* the result of the CallToolRequestSchema handler
CallToolResult(name, o) ==
    LET handler == LookupHandler(name) IN
    CASE handler = "undefined" -> formatMcpErrorResponse(INVALID_PARAM_VALUE)
      [] handler = "handler" ->
           IF o.kind = "escapes" THEN formatMcpErrorResponse(SYSTEM_ERROR)
           ELSE HandlerResult(o)
      \* Object.prototype.toString returns a string, Object returns the arguments
      [] handler \in {"toString", "constructor"} -> NotAnEnvelope
      \* valueOf and hasOwnProperty throw for this = undefined, and
      \* Object.prototype is not a function: the catch block answers
      [] OTHER -> formatMcpErrorResponse(SYSTEM_ERROR)

InitToolCall ==
    /\ scenario = "toolcall"
    /\ ttbKey = ValidKey
    /\ usage = NoUsage
    /\ globalUsageStats = [dailyCount |-> 0, lastCall |-> TStart]
    /\ resetAt = NextMidnight(TStart)
    /\ FreshClient
    /\ probe = NoProbe
    /\ toolCall = NoToolCall
    /\ isbnProbe = NoIsbnProbe
    /\ cacheLog = NoCacheLog
    /\ fnCall = NoFnCall

\* a tools/call request arrives
ReceiveCall ==
    /\ toolCall.stage \in {"none", "returned"}
    /\ toolCall.served < MaxBoundaryCalls
    /\ \E name \in RegisteredTools \cup InheritedNames \cup UnknownNames, args \in ToolArguments :
         toolCall' = [NoToolCall EXCEPT !.stage = "called", !.name = name, !.args = args,
                                        !.served = toolCall.served]
    /\ UNCHANGED <<scenario, now, ticks, ttbKey, cache, breaker, usage, globalUsageStats,
                   rateLimitState, proc, started, httpCount, last, resetAt, probe,
                   isbnProbe, cacheLog, fnCall>>

\* the request handler returns
ReturnResult ==
    /\ toolCall.stage = "called"
    /\ \E o \in (IF LookupHandler(toolCall.name) = "handler"
                  THEN HandlerOutcomes(toolCall.name, toolCall.args)
                  ELSE {NoToolCall.outcome}) :
         toolCall' = [toolCall EXCEPT !.stage = "returned", !.outcome = o,
                                      !.result = CallToolResult(toolCall.name, o),
                                      !.served = @ + 1]
    /\ UNCHANGED <<scenario, now, ticks, ttbKey, cache, breaker, usage, globalUsageStats,
                   rateLimitState, proc, started, httpCount, last, resetAt, probe,
                   isbnProbe, cacheLog, fnCall>>

NextToolCall == ReceiveCall \/ ReturnResult

SpecToolCall == InitToolCall /\ [][NextToolCall]_vars

\* ------------------------------------------------------------------------
\* Properties
\* ------------------------------------------------------------------------
\* a step in which an endpoint method is called
StartStep == started' = started + 1

\* the flow that takes the call
Starter == CHOOSE p \in Procs : proc[p].pc = "idle" /\ \A q \in Procs : q < p => proc[q].pc # "idle"

\* the call settles within the step in which it is made
StartedSync == proc'[Starter].pc = "idle"

StartedMethod == IF StartedSync THEN last'.method ELSE proc'[Starter].method

StartedParams == IF StartedSync THEN last'.params ELSE proc'[Starter].params

StartedKey == createCacheKey(StartedMethod, StartedParams)

\* the call made in this step passes validation, so that it reads the cache
ReadStep == StartStep /\ ~(StartedSync /\ last'.stage = "validation")

\* the call made in this step is answered from the cache with data
ServedFromCache(data) ==
    StartedSync /\ last'.ok /\ last'.stage = "cache" /\ last'.data = data

FirstStatus(plan) == PlanAt(plan, 1).status

\* C1: when every HTTP attempt of a call is answered with HTTP 500, the call
\* issues exactly MAX_RETRIES + 1 = 4 HTTP requests and then fails with a
\* StandardError.
C1_RetryCeiling ==
    (last.settled /\ last.nHttp >= 1 /\ last.plan = <<HTTP_500>>)
        => (last.nHttp = MAX_RETRIES + 1 /\ ~last.ok /\ last.err # NoError)

\* C2: when the first HTTP response of a call is a 4xx other than 429, the
\* call issues exactly one HTTP request and fails at once: it never waits
\* for a retry and never issues a second request.
C2_NoRetryOnClientError ==
    /\ (last.settled /\ last.nHttp >= 1 /\ FirstStatus(last.plan) \in {400, 404})
           => (last.nHttp = 1 /\ ~last.ok /\ last.err # NoError /\ ~last.err.isAxiosError)
    /\ \A p \in Procs :
           (proc[p].nHttp >= 1 /\ proc[p].pc \in {"retry_sleep", "http"}
              /\ FirstStatus(proc[p].plan) \in {400, 404})
               => proc[p].pc = "http" /\ proc[p].nHttp = 1

C2_Witness ==
    /\ last.settled /\ last.method = "search" /\ last.plan = <<HTTP_400>>
    /\ last.nHttp = 1 /\ ~last.ok /\ last.stage = "http"

\* C3: when the first HTTP attempt of searchBooks fails with a network error
\* or a 5xx status and the upstream answers 200 to the second attempt, the
\* call resolves with the response data after exactly 2 HTTP requests.
C3_Recovery ==
    (last.settled /\ last.method = "search"
       /\ last.plan \in {<<HTTP_500, OK_ITEMS>>, <<NETWORK_ERROR, OK_ITEMS>>})
        => (last.ok /\ last.nHttp = 2 /\ last.data = normalizeResponse(OK_ITEMS.body))

\* C4: once CIRCUIT_BREAKER_THRESHOLD consecutive failures are recorded, every
\* breaker check rejects the call, without an HTTP request, until
\* CIRCUIT_BREAKER_TIMEOUT has elapsed since the last failure; a check at or
\* after that moment passes and resets the failure counter to 0.
C4_BreakerOpenClose ==
    [][\A p \in Procs :
         (proc[p].pc = "cb_check" /\ proc'[p].pc # "cb_check"
            /\ breaker.failures >= CIRCUIT_BREAKER_THRESHOLD)
          => IF now < breaker.lastFailure + CIRCUIT_BREAKER_TIMEOUT
             THEN /\ proc'[p].pc = "idle"
                  /\ last'.stage = "breaker" /\ ~last'.ok /\ last'.nHttp = 0
                  /\ httpCount' = httpCount
                  /\ breaker' = breaker
             ELSE /\ proc'[p].pc = "http"
                  /\ httpCount' = httpCount + 1
                  /\ breaker'.failures = 0]_vars

\* a call was rejected by the open breaker, and the next one passed the
\* check after the cooldown and is waiting for its answer
C4_Witness ==
    /\ last.settled /\ last.stage = "breaker"
    /\ breaker = [failures |-> 0, lastFailure |-> NoDate]
    /\ httpCount = CIRCUIT_BREAKER_THRESHOLD + 1
    /\ \E p \in Procs : proc[p].pc = "http"

\* C5: a search that follows an identical search (same parameters, made
\* before SEARCH_TTL has passed since the first one returned, the cache not
\* cleared in between) issues no HTTP request and returns the data of the
\* first, which had issued exactly one.
C5_IdenticalSearches ==
    [][(/\ StartStep
        /\ \A p \in Procs : proc[p].pc = "idle"
        /\ last.settled /\ last.ok /\ last.method = "search" /\ last.stage = "success"
        /\ ~last.cleared /\ ~last.followed
        /\ now < last.endTime + SEARCH_TTL
        /\ StartedMethod = "search"
        /\ Fields(StartedParams) = Fields(last.params))
       => (/\ last.nHttp = 1
           /\ ServedFromCache(last.data)
           /\ last'.nHttp = 0
           /\ httpCount' = httpCount)]_vars

C5_Witness ==
    /\ started = 2 /\ httpCount = 1 /\ now > TStart
    /\ last.settled /\ last.ok /\ last.method = "search" /\ last.stage = "cache"
    /\ last.params # SearchA

LiveBefore(e, t) == e.timestamp <= t /\ t < e.timestamp + e.ttl

LiveThrough(e, t) == e.timestamp <= t /\ t <= e.timestamp + e.ttl

\* the entry of the request of the call made in this step
ReadEntry == cache[CacheIndex(cache, StartedKey)]

\* what the read of the cache does in this step: a live entry stays and is
\* returned (a call whose cached value is not null is answered with it), any
\* other is removed and not returned
CacheReadEffect(live) ==
    IF live
    THEN /\ CacheHas(cache', StartedKey)
         /\ cache'[CacheIndex(cache', StartedKey)] = ReadEntry
         /\ DataTruthy(ReadEntry.data) => ServedFromCache(ReadEntry.data)
    ELSE /\ ~CacheHas(cache', StartedKey)
         /\ ~(StartedSync /\ last'.stage = "cache")

\* C6: an entry stored at t0 with TTL T is returned by every read at
\* t0 <= t < t0 + T and is absent, and removed, for every read at
\* t >= t0 + T, the read at exactly t0 + T included.
C6_TtlBoundary ==
    [][(ReadStep /\ CacheHas(cache, StartedKey))
       => CacheReadEffect(LiveBefore(ReadEntry, now))]_vars

\* C6, as the code has it: an entry stored at t0 with TTL T is returned by
\* every read at t0 <= t <= t0 + T and is absent, and removed, for every
\* read at t > t0 + T.
C6_TtlBoundaryInclusive ==
    [][(ReadStep /\ CacheHas(cache, StartedKey))
       => CacheReadEffect(LiveThrough(ReadEntry, now))]_vars

\* a call was answered from the cache at exactly t0 + T
C6_Witness ==
    /\ last.settled /\ last.ok /\ last.stage = "cache"
    /\ \E i \in 1..Len(cache) :
         /\ cache[i].key = createCacheKey(last.method, last.params)
         /\ last.endTime = cache[i].timestamp + cache[i].ttl

\* C7: for one endpoint, two parameter objects that are field-wise equal
\* get the same cache key, whatever the order their fields were constructed in.
C7_KeyDeterminism ==
    (probe.stage = "out" /\ Fields(probe.p1) = Fields(probe.p2)) => probe.k1 = probe.k2

C7_Witness ==
    /\ probe.stage = "out"
    /\ Len(probe.p1) = MaxProbeFields
    /\ Fields(probe.p1) = Fields(probe.p2)
    /\ probe.p1 # probe.p2
    /\ probe.k1 = probe.k2

\* C8: a call whose parameters fail validation fails without touching
\* anything else: the cache, the quota state (dailyCount, request counters,
\* request history), the breaker state and the number of HTTP requests stay
\* as they were.
C8_FailFastValidation ==
    [][(StartStep /\ StartedSync /\ last'.stage = "validation")
       => (/\ ~last'.ok
           /\ UNCHANGED <<cache, usage, globalUsageStats, rateLimitState, breaker, httpCount>>)]_vars

\* C9: getBookDetails called with none of ItemId, ISBN, ISBN13 fails with an
\* error of code INVALID_PARAM_VALUE (300), and no HTTP request is issued.
C9_LookupWithoutIdentifier ==
    (last.settled /\ last.method = "lookup"
       /\ ~Has(last.params, "ItemId") /\ ~Has(last.params, "ISBN") /\ ~Has(last.params, "ISBN13"))
        => (~last.ok /\ last.err.code = INVALID_PARAM_VALUE /\ last.nHttp = 0)

\* C10: a call that finds an unexpired cache entry for its request returns
\* the value of the entry, issues no HTTP request, runs no quota or breaker
\* check and leaves quota and breaker state unchanged.
C10_CacheHitsAreFree ==
    [][(/\ ReadStep
        /\ CacheHas(cache, StartedKey)
        /\ LiveBefore(ReadEntry, now))
       => (/\ StartedSync /\ last'.stage = "cache"
           /\ last'.data = ReadEntry.data
           /\ UNCHANGED <<usage, globalUsageStats, rateLimitState, breaker, httpCount>>)]_vars

\* the key has used up its daily quota and the date has not changed since
\* the last reset of its counter
QuotaReached ==
    /\ usage.exists
    /\ usage.dailyCount >= DAILY_API_LIMIT
    /\ DayNumber(now) = DayNumber(usage.lastReset)

\* C11: when dailyCount of the key is at or above the daily limit and the
\* date has not rolled over, a call that reaches the quota check is rejected
\* there with the DailyLimitExceeded error and issues no HTTP request.
C11_DailyQuotaGate ==
    [][(StartStep /\ QuotaReached)
       => (/\ httpCount' = httpCount
           /\ IF StartedSync
              THEN /\ last'.stage \in {"validation", "cache", "quota"}
                   /\ last'.nHttp = 0
                   /\ last'.stage = "quota" => ~last'.ok /\ last'.err = handleApiLimitExceeded
              ELSE /\ proc'[Starter].pc = "rejecting"
                   /\ proc'[Starter].stage = "quota"
                   /\ proc'[Starter].nHttp = 0
                   /\ proc'[Starter].err = handleApiLimitExceeded)]_vars

\* a call used the last unit of the quota with one HTTP request and the
\* next call, a list call, was rejected by the quota check
C11_Witness ==
    /\ last.settled /\ last.method = "bestseller" /\ last.stage = "quota"
    /\ ~last.ok /\ last.nHttp = 0
    /\ httpCount = 1
    /\ QuotaReached

\* the call made in this step is not settled by validation or by the cache,
\* so that it runs the quota check
QuotaCheckStep ==
    StartStep /\ ~(StartedSync /\ last'.stage \in {"validation", "cache"})

\* C12: when the date has rolled over since the last reset of the key's
\* counter, the next quota check for the key finds dailyCount = 0 and does
\* not reject, whether or not the midnight timer has run and however many
\* days have passed.
C12_DailyReset ==
    [][(/\ QuotaCheckStep
        /\ usage.exists
        /\ DayNumber(now) > DayNumber(usage.lastReset))
       => (/\ usage'.dailyCount = 0
           /\ StartedSync => last'.err # handleApiLimitExceeded
           /\ proc'[Starter].err # handleApiLimitExceeded)]_vars

\* C13: a call that has issued at least one HTTP request increments
\* dailyCount of the key by exactly one when it settles, with data or with an
\* error, whichever endpoint method was called.
C13_QuotaAccounting ==
    [][\A p \in Procs :
         (proc[p].pc = "http" /\ proc'[p].pc = "idle")
          => (/\ last'.settled /\ last'.nHttp >= 1
              /\ usage'.dailyCount = usage.dailyCount + 1)]_vars

\* C14: what a call leaves in the cache and in the circuit breaker is there
\* for the next call of the process, also when the two calls are made by
\* separate tool invocations: the response the last call stored is served to
\* a call with the same key made before it expires, and the failures the
\* earlier calls counted are the ones the breaker check of the next call sees.
C14_SharedCacheAndBreaker ==
    [][/\ StartStep => breaker' = breaker
       /\ (/\ ReadStep
           /\ last.settled /\ last.ok /\ last.stage = "success" /\ ~last.cleared
           /\ DataTruthy(last.data)
           /\ createCacheKey(last.method, last.params) = StartedKey
           /\ now < last.endTime + Ttl(last.method))
          => (ServedFromCache(last.data) /\ httpCount' = httpCount)]_vars

\* an object with a code of the error code table, a message and a timestamp,
\* which is not the error object of the transport
IsStandardError(e) ==
    /\ e.timestamp
    /\ ~e.isAxiosError
    /\ e.code \in ALADIN_ERROR_CODES
    /\ e.msg # <<>>

\* C15: every call that fails, at whichever stage (validation, quota, burst,
\* breaker, HTTP, normalization), fails with a StandardError: an object with
\* code, message and timestamp, never the raw error of the transport or of
\* the runtime.
C15_OnlyStandardErrors ==
    (last.settled /\ ~last.ok) => IsStandardError(last.err)

\* a list call whose answer could not be normalized has failed with a
\* StandardError made from the exception of the runtime
C15_Witness ==
    /\ last.settled /\ ~last.ok /\ last.stage = "normalization"
    /\ IsList(last.method)
    /\ last.err = handleGenericError(TypeError, "API_CALL")

\* C16: whatever the tool name and the arguments, the tool-call handler
\* returns the uniform envelope, and unless a tool handler produced data the
\* envelope has success false, an error with a code, and no data.
C16_BoundaryEnvelope ==
    toolCall.stage = "returned"
        => /\ toolCall.result.envelope
           /\ toolCall.outcome.kind # "data"
                  => /\ ~toolCall.result.success
                     /\ toolCall.result.errorCode # 0
                     /\ ~toolCall.result.data

\* C17: when the quota check rejects a searchBooks or getBookDetails call
\* because the daily limit is reached, the caller receives the
\* DailyLimitExceeded error (code 901) the rate limiter constructed.
C17_ErrorKindPreserved ==
    [][\A p \in Procs :
         (/\ proc[p].pc = "rejecting"
          /\ proc[p].method \in {"search", "lookup"}
          /\ proc[p].err = handleApiLimitExceeded
          /\ proc'[p].pc = "idle")
          => (/\ ~last'.ok
              /\ last'.err = handleApiLimitExceeded
              /\ last'.err.code = DAILY_LIMIT_EXCEEDED)]_vars

\* C18: when a frequency check throttles a call and the check before it had
\* throttled too (the key is still marked blocked), the delay of the call is
\* the previous delay times the multiplier, capped at MAX_BACKOFF_DELAY: it
\* is longer than the previous one unless the cap is reached, and never
\* above the cap.
C18_ExponentialBackoff ==
    [][\A p \in Procs :
         (proc[p].pc = "rl_freq" /\ proc'[p].pc = "rl_sleep" /\ rateLimitState.isBlocked)
          => LET previous == rateLimitState.currentDelay
                 delay == rateLimitState'.currentDelay
             IN /\ delay = NextDelay(previous)
                /\ delay > previous \/ delay = MAX_BACKOFF_DELAY * DelayScale
                /\ delay <= MAX_BACKOFF_DELAY * DelayScale
                /\ proc'[p].wakeAt = now + delay \div DelayScale]_vars

\* the error of a check rejected by the burst limit
BurstLimitError ==
    handleGenericError(StandardError(0, <<"RETRY_LATER">>, 0), "BURST_LIMIT_EXCEEDED")

\* the call of flow p is settled, or about to be, with the error thrown at stage
RejectedAt(p, thrown, stage) ==
    \/ /\ proc'[p].pc = "idle"
       /\ last'.settled /\ ~last'.ok /\ last'.stage = stage
       /\ last'.err = CatchError(last'.method, thrown, stage)
    \/ /\ proc'[p].pc = "rejecting"
       /\ proc'[p].stage = stage /\ proc'[p].err = thrown

\* C19: in one burst window of BURST_WINDOW ms at most BURST_LIMIT checks
\* of a key pass the burst check; a further check in the window is rejected
\* at once with the burst-limit error, not delayed; the burst counter never
\* exceeds BURST_LIMIT.
C19_BurstLimit ==
    [][/\ rateLimitState'.burstCount <= BURST_LIMIT
       /\ \A p \in Procs :
            (proc[p].pc = "rl_burst" /\ proc'[p].pc # "rl_burst")
             => LET passed == IF now <= rateLimitState.lastBurstReset + BURST_WINDOW
                              THEN rateLimitState.burstCount ELSE 0
                IN IF passed >= BURST_LIMIT
                   THEN /\ RejectedAt(p, BurstLimitError, "burst")
                        /\ rateLimitState'.burstCount = passed
                        /\ httpCount' = httpCount
                   ELSE /\ proc'[p].pc = "cb_check"
                        /\ rateLimitState'.burstCount = passed + 1]_vars

\* the eleventh check within one millisecond was rejected by the burst limit
C19_Witness ==
    /\ last.settled /\ ~last.ok /\ last.stage = "burst"
    /\ last.err = BurstLimitError
    /\ rateLimitState.burstCount = BURST_LIMIT
    /\ started = BURST_LIMIT + 1
    /\ now = TStart

\* C20: the frequency check never fails a call: a call that arrives while
\* the key is throttled, also while another call is waiting out its delay,
\* waits inside the check and then goes on to the burst check.
C20_ThrottleNeverAnError ==
    [][/\ \A p \in Procs :
            proc[p].pc = "rl_freq" => proc'[p].pc \in {"rl_freq", "rl_sleep", "rl_burst"}
       /\ last'.settled => last'.stage # "frequency"]_vars

\* ------------------------------------------------------------------------
\* The ISBN validators
\* ------------------------------------------------------------------------
\* the value of one character of an ISBN-10, X standing for 10
Isbn10Value(c) == IF c = "X" THEN 10 ELSE DigitValue(c)

\* d1*10 + d2*9 + ... + d9*2 + d10*1 is a multiple of 11
Isbn10CheckDigitOk(s) ==
    SumTo([i \in 1..10 |-> Isbn10Value(s[i]) * (11 - i)], 10) % 11 = 0

IsIsbn10(v) ==
    /\ v.t = "string"
    /\ Len(v.s) = 10
    /\ \A i \in 1..9 : v.s[i] \in Digits
    /\ v.s[10] \in Digits \cup {"X"}
    /\ Isbn10CheckDigitOk(v.s)

\* C21: validateIsbn10 returns valid exactly for the 10-character strings of
\* nine digits and a digit or X whose last character is the mod-11 check
\* digit of the first nine; "0747532699" is valid and "0747532698" is not.
C21_Isbn10Exact ==
    isbnProbe.stage = "out" =>
        /\ (isbnProbe.isbn10 = <<>>) <=> IsIsbn10(isbnProbe.input)
        /\ isbnProbe.input = Str(<<"0", "7", "4", "7", "5", "3", "2", "6", "9", "9">>)
              => isbnProbe.isbn10 = <<>>
        /\ isbnProbe.input = Str(<<"0", "7", "4", "7", "5", "3", "2", "6", "9", "8">>)
              => isbnProbe.isbn10 # <<>>

\* a string of the right pattern is rejected for its check digit alone
C21_Witness ==
    /\ isbnProbe.stage = "out"
    /\ isbnProbe.input = Str(<<"0", "7", "4", "7", "5", "3", "2", "6", "9", "8">>)
    /\ isbnProbe.isbn10 = <<"ISBN10_CHECKSUM">>

\* d1 + 3*d2 + d3 + ... + 3*d12 + d13 is a multiple of 10
Isbn13CheckDigitOk(s) ==
    SumTo([i \in 1..13 |-> DigitValue(s[i]) * (IF i % 2 = 1 THEN 1 ELSE 3)], 13) % 10 = 0

IsIsbn13(v) ==
    /\ v.t = "string"
    /\ Len(v.s) = 13
    /\ \A i \in 1..13 : v.s[i] \in Digits
    /\ Isbn13CheckDigitOk(v.s)

\* C22: validateIsbn13 returns valid exactly for the strings of 13 digits
\* whose last digit is the mod-10 check digit of the first twelve under the
\* alternating weights 1, 3; "9780747532699" is valid and "9780747532690"
\* is not.
C22_Isbn13Exact ==
    isbnProbe.stage = "out" =>
        /\ (isbnProbe.isbn13 = <<>>) <=> IsIsbn13(isbnProbe.input)
        /\ isbnProbe.input =
              Str(<<"9", "7", "8", "0", "7", "4", "7", "5", "3", "2", "6", "9", "9">>)
              => isbnProbe.isbn13 = <<>>
        /\ isbnProbe.input =
              Str(<<"9", "7", "8", "0", "7", "4", "7", "5", "3", "2", "6", "9", "0">>)
              => isbnProbe.isbn13 # <<>>

\* thirteen digits are rejected for the check digit alone
C22_Witness ==
    /\ isbnProbe.stage = "out"
    /\ isbnProbe.input =
          Str(<<"9", "7", "8", "0", "7", "4", "7", "5", "3", "2", "6", "9", "0">>)
    /\ isbnProbe.isbn13 = <<"ISBN13_CHECKSUM">>

\* C29: for the ISBN fields of a lookup the validation of getBookDetails
\* accepts exactly the strings the validateIsbn of the validators accepts
\* (pattern and check digit): what it accepts as ISBN is what validateIsbn
\* accepts, and what it accepts as ISBN13 has a right check digit.
C29_PipelineIsbnAsStandalone ==
    isbnProbe.stage = "out" /\ Truthy(isbnProbe.input) =>
        /\ (isbnProbe.lookupIsbn = <<>>) <=> (isbnProbe.isbn = <<>>)
        /\ (isbnProbe.lookupIsbn13 = <<>>) => (isbnProbe.isbn = <<>>)

\* ------------------------------------------------------------------------
\* Cache eviction
\* ------------------------------------------------------------------------
CacheKeys(c) == {c[i].key : i \in 1..Len(c)}

\* setCache was called on a full cache with a key that was not in it
SetNewKeyOnFull ==
    /\ cacheLog'.op = "set"
    /\ cacheLog'.ops = cacheLog.ops + 1
    /\ Len(cache) >= MAX_CACHE_SIZE
    /\ ~cacheLog'.found

GetStep == cacheLog'.op = "get" /\ cacheLog'.ops = cacheLog.ops + 1

\* the key a setCache of a new key would remove from a full cache c
EvictedNext(c) == Head(c).key

C24_DailyRequestCap ==
    (scenario = "quota" /\ now < NextMidnight(TStart))
        => (DAILY_API_LIMIT - 1) + httpCount <= DAILY_API_LIMIT

\* the breaker rejects a check made at t
BreakerOpenAt(b, t) == checkCircuitBreaker(b, t).err # NoError

\* C25: under interleaved calls on one client the breaker, once open, stays
\* open until CIRCUIT_BREAKER_TIMEOUT has passed since the last failure: no
\* step taken before that moment, the answer to a request that was in flight
\* when the breaker opened included, leaves a breaker that lets a check pass.
C25_OpenUntilCooldown ==
    [][(/\ BreakerOpenAt(breaker, now)
        /\ now' < breaker.lastFailure + CIRCUIT_BREAKER_TIMEOUT)
       => BreakerOpenAt(breaker', now')]_vars

\* C26: a lookup that the upstream answers without an item resolves to null
\* and the null is cached: the identical getBookDetails call made on the
\* client before LOOKUP_TTL has passed, the cache not cleared in between, is
\* answered with null from the cache and issues no HTTP request.
C26_NullLookupCached ==
    [][(/\ StartStep
        /\ \A p \in Procs : proc[p].pc = "idle"
        /\ last.settled /\ last.ok /\ last.method = "lookup" /\ last.stage = "success"
        /\ last.data = Null /\ last.nHttp = 1
        /\ ~last.cleared /\ ~last.followed
        /\ now < last.endTime + LOOKUP_TTL
        /\ StartedMethod = "lookup"
        /\ StartedParams = last.params)
       => (/\ ServedFromCache(Null)
           /\ last'.nHttp = 0
           /\ httpCount' = httpCount)]_vars

\* the answer that settled the call settled in this step
SettlingAnswer == PlanAt(last'.plan, last'.nHttp)

\* C27: an upstream answer whose body carries an error code makes the call
\* fail with the StandardError mapped from that code and stores nothing in
\* the cache, whatever the HTTP status of the answer, 200 included.
C27_ErrorBodyFailsCall ==
    [][\A p \in Procs :
         (/\ proc[p].pc = "http" /\ proc'[p].pc = "idle"
          /\ last'.settled
          /\ SettlingAnswer.body.isObject
          /\ SettlingAnswer.body.errorCode # 0)
         => (/\ ~last'.ok
             /\ last'.err = handleAladinApiError(SettlingAnswer.body.errorCode)
             /\ cache' = cache)]_vars

\* a call settles in this step
SettleStep ==
    \/ StartStep /\ StartedSync
    \/ \E p \in Procs : proc[p].pc # "idle" /\ proc'[p].pc = "idle"

\* a call is settled in this step: rejected, without an HTTP request, by
\* checkRateLimit or by the open circuit breaker
RejectedBeforeHttp ==
    /\ SettleStep
    /\ last'.settled /\ ~last'.ok
    /\ last'.nHttp = 0
    /\ last'.stage \in {"quota", "frequency", "burst", "breaker"}

\* C28: a call rejected before any HTTP request, by the quota / rate check
\* or by the open circuit breaker, leaves dailyCount and the request
\* counters of the key, and the global count, as they were.
C28_RejectionConsumesNoQuota ==
    [][RejectedBeforeHttp
       => (/\ usage'.dailyCount = usage.dailyCount
           /\ usage'.totalRequests = usage.totalRequests
           /\ usage'.successfulRequests = usage.successfulRequests
           /\ usage'.failedRequests = usage.failedRequests
           /\ globalUsageStats'.dailyCount = globalUsageStats.dailyCount)]_vars

\* ------------------------------------------------------------------------
\* The order of the stages of a call
\* ------------------------------------------------------------------------
\* where a call can be before and after one of its steps: validation, cache
\* lookup and the quota check are made when it starts ("idle"), then come
\* the frequency check, the burst check, the breaker check and the HTTP
\* requests; normalization and the cache store follow the last answer
StageOrder ==
    {<<"idle", "idle">>, <<"idle", "rl_freq">>, <<"idle", "rejecting">>,
     <<"rl_freq", "rl_sleep">>, <<"rl_freq", "rl_burst">>, <<"rl_freq", "rejecting">>,
     <<"rl_freq", "idle">>, <<"rl_sleep", "rl_burst">>,
     <<"rl_burst", "cb_check">>, <<"rl_burst", "rejecting">>, <<"rl_burst", "idle">>,
     <<"cb_check", "http">>, <<"cb_check", "idle">>,
     <<"http", "retry_sleep">>, <<"http", "idle">>, <<"retry_sleep", "http">>,
     <<"rejecting", "idle">>}

\* an entry is stored in the cache in this step
CacheStore ==
    \E i \in 1..Len(cache') :
        \A j \in 1..Len(cache) : cache[j] # cache'[i]

\* a call settles with an error in this step
FailsAt(stage) == SettleStep /\ last'.settled /\ ~last'.ok /\ last'.stage = stage

\* C30: within one call the stages run in the order parameter validation,
\* cache lookup, quota / rate check, circuit-breaker check, HTTP request(s),
\* normalization, cache store, and a stage that fails prevents every later
\* stage of the call: a call moves from one stage to the next only, a check
\* that fails ends the call, an HTTP request is issued only by a call that
\* has passed the breaker check, an entry is stored only by a call whose
\* request succeeded, and the step in which a call fails at a stage shows no
\* effect of a later stage.
C30_StageOrder ==
    [][/\ \A p \in Procs :
            /\ proc'[p].pc # proc[p].pc => <<proc[p].pc, proc'[p].pc>> \in StageOrder
            /\ (proc[p].pc = "cb_check" /\ proc'[p].pc # "cb_check"
                  /\ BreakerOpenAt(breaker, now))
                 => proc'[p].pc = "idle" /\ FailsAt("breaker")
            /\ (proc[p].pc = "rl_burst" /\ proc'[p].pc # "rl_burst"
                  /\ checkBurstLimit(rateLimitState, now).err # NoError)
                 => proc'[p].pc \in {"idle", "rejecting"}
       /\ httpCount' # httpCount =>
            \E p \in Procs : /\ proc[p].pc \in {"cb_check", "retry_sleep"}
                             /\ proc'[p].pc = "http"
                             /\ httpCount' = httpCount + 1
       /\ CacheStore =>
            \E p \in Procs : /\ proc[p].pc = "http" /\ proc'[p].pc = "idle"
                             /\ last'.settled /\ last'.ok /\ last'.stage = "success"
                             /\ last'.nHttp >= 1
       /\ (StartStep /\ Validate(StartedMethod, StartedParams) # <<>>)
            => /\ FailsAt("validation")
               /\ UNCHANGED <<cache, rateLimitState, breaker, httpCount>>
       /\ FailsAt("validation") => UNCHANGED <<cache, rateLimitState, breaker, httpCount>>
       /\ (FailsAt("quota") \/ FailsAt("frequency") \/ FailsAt("burst"))
            => /\ last'.nHttp = 0
               /\ ~CacheStore
               /\ UNCHANGED <<breaker, httpCount>>
       /\ FailsAt("breaker") => last'.nHttp = 0 /\ ~CacheStore /\ UNCHANGED httpCount
       /\ (FailsAt("http") \/ FailsAt("normalization"))
            => last'.nHttp >= 1 /\ cache' = cache /\ UNCHANGED httpCount]_vars

\* the third call, made after a call that failed validation or was rejected
\* by a check, missed the cache, passed every check, issued one HTTP request
\* and stored its result
C30_Witness ==
    /\ scenario = "interleave"
    /\ started = MaxInterleaveCalls
    /\ last.settled /\ last.ok /\ last.stage = "success" /\ last.nHttp = 1
    /\ CacheHas(cache, createCacheKey(last.method, last.params))
    /\ Len(cache) = 1
    /\ httpCount = 1

\* ------------------------------------------------------------------------
\* The frequency throttle
\* ------------------------------------------------------------------------
\* the calls recorded for the key in the FREQUENCY_WINDOW before t
RecentCalls(u, t) ==
    Len(SelectSeq(u.requestHistory, LAMBDA h : t <= h + FREQUENCY_WINDOW))

\* C31: the frequency check delays a call only when more than
\* FREQUENCY_LIMIT calls were recorded for the key in the trailing
\* FREQUENCY_WINDOW; with FREQUENCY_LIMIT or fewer it lets the call through
\* without delay (the key not being blocked by an earlier throttle).
C31_ThrottleThreshold ==
    [][\A p \in Procs :
         (proc[p].pc = "rl_freq" /\ proc'[p].pc # "rl_freq")
          => /\ proc'[p].pc = "rl_sleep" => RecentCalls(usage, now) > FREQUENCY_LIMIT
             /\ (RecentCalls(usage, now) <= FREQUENCY_LIMIT /\ ~rateLimitState.isBlocked)
                  => proc'[p].pc = "rl_burst"]_vars

\* ------------------------------------------------------------------------
\* The error classifier
\* ------------------------------------------------------------------------
\* C32: the StandardError that handleHttpStatusError makes of a status is
\* judged retryable by isRetryableError of the error handler exactly when the
\* status is 429 or 5xx, which are the statuses the status mapping marks
\* retryable.
C32_RetryableStatuses ==
    (fnCall.stage = "returned" /\ fnCall.fn = "handleHttpStatusError")
        => /\ fnCall.result.isRetryable
               <=> (fnCall.arg = 429 \/ (fnCall.arg >= 500 /\ fnCall.arg <= 599))
           /\ HttpStatusRetryable(fnCall.arg) => fnCall.result.isRetryable

\* ------------------------------------------------------------------------
\* The size of the cache
\* ------------------------------------------------------------------------
\* C33: after any sequence of getFromCache, setCache and clearCache on one
\* client the cache holds at most MAX_CACHE_SIZE entries.
C33_CacheBounded == Len(cache) <= MAX_CACHE_SIZE

\* three stores of new keys into a full cache: the three oldest entries are
\* gone and the cache is full again
C33_Witness ==
    /\ scenario = "evict"
    /\ cacheLog.ops = 3
    /\ cacheLog.op = "set"
    /\ Len(cache) = MAX_CACHE_SIZE
    /\ Head(cache).key = EvictKey("a", 4)

\* ------------------------------------------------------------------------
\* Upstream error codes
\* ------------------------------------------------------------------------
\* C34: for an errorCode that is none of 100, 200, 300, 900, 901,
\* handleAladinApiError returns a StandardError with code 900 (SYSTEM_ERROR)
\* and writes a warning to the log.
C34_UnknownCodeIsSystemError ==
    (/\ fnCall.stage = "returned"
     /\ fnCall.fn = "handleAladinApiError"
     /\ fnCall.arg \notin {100, 200, 300, 900, 901})
        => /\ fnCall.result.error.code = 900
           /\ ~fnCall.result.error.isAxiosError
           /\ fnCall.result.error.timestamp
           /\ \E i \in DOMAIN fnCall.result.log : fnCall.result.log[i] = "warn"

\* the upstream sent errorCode 404
C34_Witness ==
    /\ fnCall.stage = "returned"
    /\ fnCall.fn = "handleAladinApiError"
    /\ fnCall.arg = 404
    /\ fnCall.result.error.code = SYSTEM_ERROR
    /\ fnCall.result.error.origCode = 404

\* ------------------------------------------------------------------------
\* The validators of the tool inputs
\* ------------------------------------------------------------------------
CompositeValidators ==
    {"validateAladinSearchInput", "validateAladinBookInfoInput",
     "validateAladinBestsellersInput"}

\* the messages of the validator of one field for the value v
FieldErrors(field, v) ==
    CASE field = "query" -> validateQuery(v)
      [] field = "queryType" -> validateQueryType(v)
      [] field = "searchTarget" -> validateSearchTarget(v)
      [] field = "sort" -> validateSortOption(v)
      [] field = "cover" -> validateCoverSize(v)
      [] field = "categoryId" -> validateCategoryId(v)
      [] field = "start" -> validateStart(v)
      [] field = "maxResults" -> validateMaxResults(v)
      [] field = "optResult" -> validateOptResults(v)
      [] field = "itemId" -> validateItemId(v)
      [] field = "isbn" -> validators_validateIsbn(v)
      [] field = "isbn13" -> validateIsbn13(v)
      [] field = "year" -> validateYear(v)
      [] field = "month" -> validateMonth(v)
      [] field = "week" -> validateWeek(v)

\* a field of the input that is present and that its validator rejects, or
\* the query, which is required, when it is absent
InvalidField(input, field) ==
    /\ input[field] # Undef \/ field = "query"
    /\ FieldErrors(field, input[field]) # <<>>

\* every message of the field's validator is among errors
Reported(input, field, errors) ==
    LET messages == FieldErrors(field, input[field])
    IN \A i \in DOMAIN messages : \E j \in DOMAIN errors : errors[j] = messages[i]

\* C35: a composite validator does not throw, and for an input with invalid
\* fields it returns isValid = false with the messages of every invalid
\* field among its errors, not only those of the first.
C35_AllErrorsReported ==
    (fnCall.stage = "returned" /\ fnCall.fn \in CompositeValidators)
        => /\ ~fnCall.result.threw
           /\ \A field \in DOMAIN fnCall.arg :
                 InvalidField(fnCall.arg, field)
                    => /\ ~fnCall.result.isValid
                       /\ Reported(fnCall.arg, field, fnCall.result.errors)

\* ------------------------------------------------------------------------
\* Normalization of an item
\* ------------------------------------------------------------------------
\* typeof v === 'number'
IsNumber(v) == v.t \in {"number", "NaN"}

\* the value of a string of digits
RECURSIVE DecimalValue(_)
DecimalValue(s) ==
    IF s = <<>> THEN 0 ELSE 10 * DecimalValue(SubSeq(s, 1, Len(s) - 1)) + DigitValue(s[Len(s)])

\* a string that is a numeral: digits, for customerReviewRank also with a
\* fraction
IsDigits(s) == s # <<>> /\ \A i \in DOMAIN s : s[i] \in Digits

IsNumeral(s) ==
    \/ IsDigits(s)
    \/ \E i \in DOMAIN s :
          /\ s[i] = "."
          /\ IsDigits(SubSeq(s, 1, i - 1))
          /\ IsDigits(SubSeq(s, i + 1, Len(s)))

\* the number a numeral stands for
NumeralValue(s) ==
    IF IsDigits(s) THEN Num(DecimalValue(s))
    ELSE LET i == CHOOSE j \in DOMAIN s : s[j] = "." IN
         [t |-> "number", n |-> DecimalValue(SubSeq(s, 1, i - 1)),
          s |-> SignificantFraction(SubSeq(s, i + 1, Len(s)))]

C37_CommonParams ==
    (fnCall.stage = "returned" /\ fnCall.fn = "request")
        => LET sent == fnCall.result.params IN
           /\ Get(sent, "TTBKey") = Str(ttbKey)
           /\ Get(sent, "Version") = Str(API_VERSION)
           /\ Get(sent, "Output") = Str(DEFAULT_OUTPUT_FORMAT)
           /\ \A name \in {"TTBKey", "Version", "Output"} :
                 Cardinality({i \in DOMAIN sent : sent[i].k = name}) = 1
           /\ Get(sent, "Query") = Get(fnCall.arg.params, "Query")

\* the caller supplied another key, version and format, and the client's key
\* was changed before the request was sent
C37_Witness ==
    /\ fnCall.stage = "returned"
    /\ fnCall.fn = "request"
    /\ Get(fnCall.arg.params, "TTBKey") = Str(TestKey)
    /\ Get(fnCall.arg.params, "Version") = Str(<<"2", "0", "1", "3", "1", "1", "0", "1">>)
    /\ Get(fnCall.arg.params, "Output") = Str(<<"X", "M", "L">>)
    /\ ttbKey = OtherKey
    /\ Get(fnCall.result.params, "TTBKey") = Str(OtherKey)

\* ------------------------------------------------------------------------
\* Termination of a call
\* ------------------------------------------------------------------------
\* C38: every call that was started settles. On its way it makes at most
\* MAX_RETRIES + 1 HTTP attempts, waits at most one throttle delay, which is
\* at most MAX_BACKOFF_DELAY and after which the frequency check is not made
\* again, and every retry delay it waits is at most MAX_RETRY_DELAY.
C38_EveryCallSettles ==
    /\ \A p \in Procs : (proc[p].pc # "idle") ~> (proc[p].pc = "idle")
    /\ [](\A p \in Procs :
             /\ proc[p].nHttp <= MAX_RETRIES + 1
             /\ proc[p].pc = "rl_sleep" => proc[p].wakeAt <= now + MAX_BACKOFF_DELAY
             /\ proc[p].pc = "retry_sleep" => proc[p].wakeAt <= now + MAX_RETRY_DELAY)
    /\ [][\A p \in Procs :
             (proc[p].pc = "rl_sleep" /\ proc'[p].pc # "rl_sleep")
                => proc'[p].pc = "rl_burst"]_vars

\* the only call that was started waited for the throttle delay, made its
\* HTTP request and has settled
C38_Witness ==
    /\ scenario = "retry"
    /\ started = 1
    /\ \A p \in Procs : proc[p].pc = "idle"
    /\ last.settled
    /\ last.nHttp = 1
    /\ rateLimitState.isBlocked
    /\ last.endTime >= rateLimitState.nextAllowedTime.ms

====
